---- MODULE Spec2Model ----
(***************************************************************************)
(* Model of the UPSC question analyzer pipeline:                           *)
(*   - ExcelGenerator   (src/excel_generator.py)  report accumulator       *)
(*   - OllamaAnalyzer   (src/ollama_analyzer.py)  analysis client          *)
(*   - QuestionParser   (src/question_parser.py)  record parser            *)
(* Text is modelled as a sequence of one-character strings; "\n" is the    *)
(* newline character.                                                      *)
(***************************************************************************)
EXTENDS Integers, Sequences, FiniteSets, TLC

VARIABLES
  \* ---- ExcelGenerator ----
  xlPc,          \* "new" before __init__, "ready" after it
  worksheet,     \* in-memory sheet: row -> column -> cell
  merged,        \* rows whose A..D cells were merged by finalize_excel
  current_row,   \* ExcelGenerator.current_row
  disk,          \* the artifact on disk
  xlOp,          \* last operation: "none", "init", "append", "finalize"
  xlRet,         \* return value of the last add_analysis_result
  xlSaved,       \* whether the save made by the last operation succeeded
  accepted,      \* ids of the results whose append returned True, in order
  nextId,        \* id of the next result handed to add_analysis_result
  finalized,     \* number of finalize_excel calls made
  finalizedAt,   \* for each finalize_excel call, the number of results accepted before it
  \* ---- OllamaAnalyzer.analyze_question ----
  azPc,          \* "loop" while in the retry loop, "done" once returned
  max_retries,   \* config['analysis']['max_retries']
  azQuestion,    \* the record being analysed
  attempt,       \* loop variable of analyze_question
  calls,         \* ollama.chat calls made so far
  delays,        \* time.sleep(retry_delay) calls made so far
  azResponse,    \* outcome of the last ollama.chat call
  azResult,      \* value returned by analyze_question (Null: None)
  azRaised,      \* an exception left analyze_question
  \* ---- QuestionParser.parse_content ----
  psPc,          \* "input" before parse_content, "parsed" after it
  content,       \* the text handed to parse_content
  docShape,      \* how the text was put together: header and block variants
  question_blocks, \* result of _split_into_question_blocks
  questions,     \* the list parse_content returns
  \* ---- the orchestrators: UPSCAnalyzer (CLI), WebAnalysisSession (web) ----
  orMode,        \* "cli" or "web" ("none": no run)
  orPc,          \* position of the run
  backend,       \* what the connectivity probe met: "unknown" before it
  orTotal,       \* len(questions) of the file or text of the run
  orIdx,         \* i of the loop: records whose iteration has begun
  interrupted,   \* UPSCAnalyzer.interrupted
  interruptedAt, \* orIdx when the flag was set (-1: not set)
  analyzed,      \* records handed to analyze_question, in call order
  orLog,         \* how the iteration of each record ended, in order
  fileNo,        \* analyze_all_files: position of the current file (from 1)
  producing,     \* the last file whose run constructed an ExcelGenerator
  \* ---- the web front end: start_analysis and its background threads ----
  analysis_sessions, \* the registry: session id -> index of its session
  sessions,      \* the WebAnalysisSession objects, in order of creation
  poll           \* the request thread of GET /progress: its position and
                 \* the fields it has read for the response

xlVars == <<xlPc, worksheet, merged, current_row, disk, xlOp, xlRet, xlSaved,
            accepted, nextId, finalized, finalizedAt>>

azVars == <<azPc, max_retries, azQuestion, attempt, calls, delays, azResponse,
            azResult, azRaised>>

psVars == <<psPc, content, docShape, question_blocks, questions>>

orVars == <<orMode, orPc, backend, orTotal, orIdx, interrupted, interruptedAt,
            analyzed, orLog, fileNo, producing>>

ssVars == <<analysis_sessions, sessions, poll>>

vars == <<xlVars, azVars, psVars, orVars, ssVars>>

\* no orchestrator run
OrIdle ==
  /\ orMode = "none"
  /\ orPc = "idle"
  /\ backend = "unknown"
  /\ orTotal = 0
  /\ orIdx = 0
  /\ interrupted = FALSE
  /\ interruptedAt = -1
  /\ analyzed = <<>>
  /\ orLog = <<>>
  /\ fileNo = 0
  /\ producing = 0

\* analysis_sessions = {} and no request yet
NoResponse ==
  [pc |-> "idle", t |-> 0, status |-> "none", current_question |-> 0, total_questions |-> 0,
   completed |-> FALSE, error |-> FALSE, seen |-> "none"]
SsIdle ==
  /\ analysis_sessions = [id \in {} |-> 0]
  /\ sessions = <<>>
  /\ poll = NoResponse

(***************************************************************************)
(* Text: sequences of one-character strings                                *)
(***************************************************************************)
NL == "\n"
Whitespace == {" ", "\t", "\n", "\r"}
Digits == {"0", "1", "2", "3", "4", "5", "6", "7", "8", "9"}
UpperOf == [c \in {"a","b","c","d","e","f","g","h","i","j","k","l","m","n",
                   "o","p","q","r","s","t","u","v","w","x","y","z"} |->
  CASE c = "a" -> "A" [] c = "b" -> "B" [] c = "c" -> "C" [] c = "d" -> "D"
    [] c = "e" -> "E" [] c = "f" -> "F" [] c = "g" -> "G" [] c = "h" -> "H"
    [] c = "i" -> "I" [] c = "j" -> "J" [] c = "k" -> "K" [] c = "l" -> "L"
    [] c = "m" -> "M" [] c = "n" -> "N" [] c = "o" -> "O" [] c = "p" -> "P"
    [] c = "q" -> "Q" [] c = "r" -> "R" [] c = "s" -> "S" [] c = "t" -> "T"
    [] c = "u" -> "U" [] c = "v" -> "V" [] c = "w" -> "W" [] c = "x" -> "X"
    [] c = "y" -> "Y" [] OTHER -> "Z"]
LowerLetters == DOMAIN UpperOf
UpperLetters == {UpperOf[c] : c \in LowerLetters}
Upper(c) == IF c \in LowerLetters THEN UpperOf[c] ELSE c
IsLetter(c) == c \in LowerLetters \/ c \in UpperLetters

MinOf(S) == CHOOSE x \in S : \A y \in S : x <= y
MaxOf(S) == 0 - MinOf({0 - x : x \in S})

\* s[lo:hi] for 1-based inclusive positions, empty when lo > hi
Slice(s, lo, hi) == IF lo > hi THEN <<>> ELSE SubSeq(s, lo, hi)
\* Truncate without the bound
Truncate_Off(s, n) == s
\* s[:n]
Truncate(s, n) == IF Len(s) <= n THEN s ELSE SubSeq(s, 1, n)

\* sub occurs in s at position p (case-sensitive)
MatchAt(s, p, sub) ==
  /\ p >= 1
  /\ p + Len(sub) - 1 <= Len(s)
  /\ \A i \in 1..Len(sub) : s[p + i - 1] = sub[i]
\* sub occurs in s at position p, ignoring case (re.IGNORECASE)
MatchAtIC(s, p, sub) ==
  /\ p >= 1
  /\ p + Len(sub) - 1 <= Len(s)
  /\ \A i \in 1..Len(sub) : Upper(s[p + i - 1]) = Upper(sub[i])
\* str.find from position start: least position of sub, 0 when absent
FindFrom(s, sub, start) ==
  LET P == {p \in start..(Len(s) - Len(sub) + 1) : MatchAt(s, p, sub)}
  IN IF P = {} THEN 0 ELSE MinOf(P)
\* sub in s
Contains(s, sub) == FindFrom(s, sub, 1) # 0
\* sub in s, ignoring case
ContainsIC(s, sub) == \E p \in 1..Len(s) : MatchAtIC(s, p, sub)
\* s.startswith(pre)
StartsWith(s, pre) == MatchAt(s, 1, pre)

\* s.strip()
Strip(s) ==
  LET P == {p \in 1..Len(s) : s[p] \notin Whitespace}
  IN IF P = {} THEN <<>> ELSE SubSeq(s, MinOf(P), MaxOf(P))

\* s.split(sep) for a non-empty separator: always at least one part
RECURSIVE SplitFrom(_, _, _)
SplitFrom(s, sep, start) ==
  LET p == FindFrom(s, sep, start)
  IN IF p = 0 THEN <<Slice(s, start, Len(s))>>
     ELSE <<Slice(s, start, p - 1)>> \o SplitFrom(s, sep, p + Len(sep))
Split(s, sep) == SplitFrom(s, sep, 1)

\* sep.join(parts)
RECURSIVE Join(_, _)
Join(parts, sep) ==
  IF parts = <<>> THEN <<>>
  ELSE IF Len(parts) = 1 THEN parts[1]
  ELSE parts[1] \o sep \o Join(Tail(parts), sep)

\* c repeated n times
Rep(c, n) == [i \in 1..n |-> c]

\* end of the line holding position p: last position before the next "\n"
LineEnd(s, p) ==
  LET N == {q \in p..Len(s) : s[q] = NL}
  IN IF N = {} THEN Len(s) ELSE MinOf(N) - 1

\* end of the maximal run of digits that starts at position p
DigitRunEnd(s, p) ==
  LET N == {q \in p..Len(s) : s[q] \notin Digits}
  IN IF N = {} THEN Len(s) ELSE MinOf(N) - 1

DigitVal(c) ==
  CASE c = "0" -> 0 [] c = "1" -> 1 [] c = "2" -> 2 [] c = "3" -> 3
    [] c = "4" -> 4 [] c = "5" -> 5 [] c = "6" -> 6 [] c = "7" -> 7
    [] c = "8" -> 8 [] OTHER -> 9
\* int(digits)
RECURSIVE ToInt(_)
ToInt(ds) ==
  IF ds = <<>> THEN 0
  ELSE 10 * ToInt(SubSeq(ds, 1, Len(ds) - 1)) + DigitVal(ds[Len(ds)])

\* re.search(r'(\d+)', s): the first maximal run of digits, <<>> when none
FirstDigits(s) ==
  LET P == {p \in 1..Len(s) : s[p] \in Digits}
  IN IF P = {} THEN <<>> ELSE SubSeq(s, MinOf(P), DigitRunEnd(s, MinOf(P)))

(***************************************************************************)
(* Bounds                                                                  *)
(***************************************************************************)
MaxAppends == 2        \* add_analysis_result calls per accumulator
MaxFinalize == 2       \* finalize_excel calls per accumulator
MaxRetriesCfg == 3     \* largest configured max_retries (the default is 3)
MaxBlocks == 2         \* question blocks of an input document
MaxSessions == 2       \* POST /analyze requests accepted by the web front end

(***************************************************************************)
(* OllamaAnalyzer: response parsing                                        *)
(***************************************************************************)
SubjectLen == 100      \* data_row[0][:100]
CommentLen == 500      \* data_row[6][:500]
LongLen == 2000        \* data_row[3][:2000]
MinCells == 9          \* len(cells) >= 9
RatingCell == 6        \* data_row[5]

Null == [kind |-> "null"]

NotFound == <<"N","o","t"," ","f","o","u","n","d">>
ParsingIncomplete == <<"A","n","a","l","y","s","i","s"," ","r","e","s","p","o","n","s","e"," ",
                       "p","a","r","s","i","n","g"," ","i","n","c","o","m","p","l","e","t","e">>
NAIncomplete == <<"N","/","A"," ","-"," ","P","a","r","s","i","n","g"," ",
                  "i","n","c","o","m","p","l","e","t","e">>
NA == <<"N","/","A">>
PIPE == <<"|">>
SepRowStart == <<"|","-","-","-">>
SubjectWord == <<"S","u","b","j","e","c","t">>
TopicWord == <<"T","o","p","i","c">>
SubtopicWord == <<"S","u","b","t","o","p","i","c">>
RatingWord == <<"R","a","t","i","n","g">>
DepthWords == <<"C","o","n","c","e","p","t","u","a","l"," ","D","e","p","t","h">>
AccuracyWords == <<"A","n","s","w","e","r"," ","A","c","c","u","r","a","c","y">>
RelevanceWord == <<"R","e","l","e","v","a","n","c","e">>

\* Cells without the strip of each cell
Cells_NoStrip(line) ==
  LET parts == Split(line, PIPE)
  IN [i \in 1..(IF Len(parts) >= 2 THEN Len(parts) - 2 ELSE 0) |-> parts[i + 1]]

\* [cell.strip() for cell in line.split('|')[1:-1]]
Cells(line) ==
  LET parts == Split(line, PIPE)
  IN [i \in 1..(IF Len(parts) >= 2 THEN Len(parts) - 2 ELSE 0) |-> Strip(parts[i + 1])]

\* the test a response line must pass to become data_row
IsDataRow(line) ==
  /\ Contains(line, PIPE)
  /\ ~StartsWith(Strip(line), SepRowStart)
  /\ ~Contains(line, SubjectWord)
  /\ Len(Cells(line)) >= MinCells

\* FindDataRow never finding a row
FindDataRow_None(response_text) == <<>>

\* the cells of the first line that qualifies, <<>> when none does
FindDataRow(response_text) ==
  LET lines == Split(response_text, <<NL>>)
      Q == {i \in 1..Len(lines) : IsDataRow(lines[i])}
  IN IF Q = {} THEN <<>> ELSE Cells(lines[MinOf(Q)])

\* ExtractRating taking the last run of digits instead of the first
ExtractRating_Last(cell) ==
  LET P == {p \in 1..Len(cell) : cell[p] \in Digits /\ (p = 1 \/ cell[p - 1] \notin Digits)}
  IN IF P = {} THEN 0 ELSE ToInt(SubSeq(cell, MaxOf(P), DigitRunEnd(cell, MaxOf(P))))

\* int(re.search(r'(\d+)', cell).group(1)) if there is a match, else 0
ExtractRating(cell) == ToInt(FirstDigits(cell))

\* -- fallback patterns ---------------------------------------------------
\* Where group 1 of  ':?\s*([^\n]+)'  starts when the pattern is tried at
\* position q (0: no match).  With the colon taken, \s* is greedy and gives
\* characters back until a character other than "\n" follows; without it
\* the same is tried from q.
CaptureAfterWs(s, q) ==
  LET N == {r \in q..Len(s) : s[r] \notin Whitespace}
      wsEnd == IF N = {} THEN Len(s) + 1 ELSE MinOf(N)
      B == {r \in q..(wsEnd - 1) : r <= Len(s) /\ s[r] # NL}
  IN IF wsEnd <= Len(s) THEN wsEnd
     ELSE IF B = {} THEN 0 ELSE MaxOf(B)
CaptureStart(s, q) ==
  LET withColon == IF q <= Len(s) /\ s[q] = ":" THEN CaptureAfterWs(s, q + 1) ELSE 0
  IN IF withColon # 0 THEN withColon ELSE CaptureAfterWs(s, q)

\* end of  (?:\n[^A-Z\n][^\n]*)*  after a line ending at e: under IGNORECASE
\* [^A-Z\n] excludes the letters of either case
RECURSIVE ContinuationEnd(_, _)
ContinuationEnd(s, e) ==
  IF e + 2 <= Len(s) /\ s[e + 1] = NL /\ s[e + 2] # NL /\ ~IsLetter(s[e + 2])
  THEN ContinuationEnd(s, LineEnd(s, e + 2))
  ELSE e

\* LabelField leaving an unmatched field empty
LabelField_Empty(text, label, multi) ==
  LET P == {p \in 1..Len(text) :
              MatchAtIC(text, p, label) /\ CaptureStart(text, p + Len(label)) # 0}
  IN IF P = {} THEN <<>>
     ELSE LET c == CaptureStart(text, MinOf(P) + Len(label))
              e == LineEnd(text, c)
          IN Strip(SubSeq(text, c, IF multi THEN ContinuationEnd(text, e) ELSE e))

\* group 1 of re.search(label + r':?\s*([^\n]+)', text, IGNORECASE), stripped;
\* "Not found" when there is no match.  multi: the pattern goes on with
\* (?:\n[^A-Z\n][^\n]*)*
LabelField(text, label, multi) ==
  LET P == {p \in 1..Len(text) :
              MatchAtIC(text, p, label) /\ CaptureStart(text, p + Len(label)) # 0}
  IN IF P = {} THEN NotFound
     ELSE LET c == CaptureStart(text, MinOf(P) + Len(label))
              e == LineEnd(text, c)
          IN Strip(SubSeq(text, c, IF multi THEN ContinuationEnd(text, e) ELSE e))

\* group 1 of r'Topic.*?Relevance:?\s*([^\n]+(?:\n[^A-Z\n][^\n]*)*)'
RelevanceAt(text, p) ==
  LET from == p + Len(TopicWord)
      R == {r \in from..LineEnd(text, from) :
              MatchAtIC(text, r, RelevanceWord)
              /\ CaptureStart(text, r + Len(RelevanceWord)) # 0}
  IN IF MatchAtIC(text, p, TopicWord) /\ R # {} THEN MinOf(R) ELSE 0
TopicRelevanceField(text) ==
  LET P == {p \in 1..Len(text) : RelevanceAt(text, p) # 0}
  IN IF P = {} THEN NotFound
     ELSE LET c == CaptureStart(text, RelevanceAt(text, MinOf(P)) + Len(RelevanceWord))
          IN Strip(SubSeq(text, c, ContinuationEnd(text, LineEnd(text, c))))

\* group 1 of r'Rating.*?(\d+)'
RatingDigitAt(text, p) ==
  LET from == p + Len(RatingWord)
      D == {d \in from..LineEnd(text, from) : text[d] \in Digits}
  IN IF MatchAtIC(text, p, RatingWord) /\ D # {} THEN MinOf(D) ELSE 0
RatingField(text) ==
  LET P == {p \in 1..Len(text) : RatingDigitAt(text, p) # 0}
  IN IF P = {} THEN NotFound
     ELSE LET d == RatingDigitAt(text, MinOf(P))
          IN Strip(SubSeq(text, d, DigitRunEnd(text, d)))

AnalysisResult(subject, topic, subtopic, question, answer, rating, depth, accuracy, relevance, improved, via) ==
  [kind |-> "result", subject |-> subject, topic |-> topic, subtopic |-> subtopic,
   question_complete |-> question, answer_explanation |-> answer, rating |-> rating,
   conceptual_depth |-> depth, answer_accuracy |-> accuracy,
   topic_relevance |-> relevance, improved_version |-> improved, via |-> via]

\* _parse_fallback_format.  A response that is not text makes re.search raise,
\* which is caught and gives None.
_parse_fallback_format(response, original_question) ==
  IF response.kind # "text" THEN Null
  ELSE LET text == response.text IN
    AnalysisResult(
      Truncate(LabelField(text, SubjectWord, FALSE), SubjectLen),
      Truncate(LabelField(text, TopicWord, FALSE), SubjectLen),
      Truncate(LabelField(text, SubtopicWord, FALSE), SubjectLen),
      Truncate(original_question, LongLen),
      Truncate(ParsingIncomplete, LongLen),
      ExtractRating(RatingField(text)),
      Truncate(LabelField(text, DepthWords, TRUE), CommentLen),
      Truncate(LabelField(text, AccuracyWords, TRUE), CommentLen),
      Truncate(TopicRelevanceField(text), CommentLen),
      NAIncomplete,
      "fallback")

\* the AnalysisResult built from data_row
FromDataRow(data_row) ==
  AnalysisResult(
    Truncate(data_row[1], SubjectLen),
    Truncate(data_row[2], SubjectLen),
    Truncate(data_row[3], SubjectLen),
    Truncate(data_row[4], LongLen),
    Truncate(data_row[5], LongLen),
    ExtractRating(data_row[RatingCell]),
    Truncate(data_row[7], CommentLen),
    Truncate(data_row[8], CommentLen),
    Truncate(data_row[9], CommentLen),
    IF Len(data_row) > MinCells THEN Truncate(data_row[10], LongLen) ELSE NA,
    "table")

\* _parse_analysis_response.  A response that is not text makes split raise,
\* which is caught and handed to the fallback parser.
_parse_analysis_response(response, original_question) ==
  IF response.kind # "text" THEN _parse_fallback_format(response, original_question)
  ELSE LET data_row == FindDataRow(response.text)
       IN IF data_row = <<>> THEN _parse_fallback_format(response, original_question)
          ELSE FromDataRow(data_row)

(***************************************************************************)
(* ExcelGenerator                                                          *)
(***************************************************************************)
NumCols == 10          \* len(self.headers)
RatingCol == 6         \* is_rating=(col == 6)
FirstDataRow == 2      \* self.current_row = 2
SummaryGap == 2        \* summary_row = self.current_row + 2
MetadataGap == 8       \* metadata_row = summary_row + 8

Cols == 1..NumCols
MaxRow == FirstDataRow + MaxAppends + SummaryGap + MetadataGap
Rows == 1..MaxRow

Empty == [k |-> "empty"]
EmptySheet == [r \in Rows |-> [c \in Cols |-> Empty]]

\* Ratings handed to the accumulator (one per colour tier, at the tier edges)
Ratings == {4, 5, 7, 9}
\* Column at which writing a cell raises (0: no cell raises). openpyxl rejects
\* a string holding a control character, so any string column may raise.
FailCols == {0, 1, 7}
\* Outcome of workbook.save: written, raised leaving the file as it was, or
\* raised after the file was opened for writing (truncated).
SaveOutcomes == {"ok", "denied", "truncated"}

\* the tiers with the top tier starting above 9 instead of at 9
TierOf_Strict(rating) ==
  IF rating > 9 THEN "high"
  ELSE IF rating >= 7 THEN "good"
  ELSE IF rating >= 5 THEN "average"
  ELSE "low"

\* _format_data_cell: the fill colour chosen for a rating cell
TierOf(rating) ==
  IF rating >= 9 THEN "high"
  ELSE IF rating >= 7 THEN "good"
  ELSE IF rating >= 5 THEN "average"
  ELSE "low"

_format_data_cell(value, is_rating) ==
  IF is_rating THEN [k |-> "int", v |-> value, fill |-> TierOf(value)]
  ELSE value

\* The ten cell values of a result: nine strings and the integer rating
RowData(result) ==
  [c \in Cols |-> IF c = RatingCol THEN result.rating
                  ELSE [k |-> "str", id |-> result.id, col |-> c]]

\* worksheet.cell(row, col, value) for columns 1..n of one row
WriteCells(ws, row, data, n) ==
  [ws EXCEPT ![row] = [c \in Cols |->
      IF c <= n THEN _format_data_cell(data[c], c = RatingCol) ELSE @[c]]]

\* The file after workbook.save(filepath) with the given outcome
FileAfterSave(outcome, ws, mg, old) ==
  CASE outcome = "ok" -> [st |-> "good", ws |-> ws, merged |-> mg]
    [] outcome = "denied" -> old
    [] OTHER -> [st |-> "corrupt", ws |-> EmptySheet, merged |-> {}]

\* _save_workbook: catches every exception of save and returns a boolean
_save_workbook(outcome) == outcome = "ok"

\* what the accumulator's operations leave alone
XlFrame == UNCHANGED <<azVars, psVars, orVars, ssVars>>

HeaderRow == [c \in Cols |-> [k |-> "header", col |-> c]]

\* Outcome of _ensure_output_folder: the folder is there, is made, or
\* os.makedirs raises (no handler: the exception leaves __init__)
FolderOutcomes == {"exists", "created", "raises"}

\* FreshSheet writing the header row into the sheet of the generator before
FreshSheet_Keep(old) == [old EXCEPT ![1] = HeaderRow]

\* _create_workbook: openpyxl.Workbook() and its active sheet, with the
\* header row; old: the sheet of the generator before, which is not used
FreshSheet(old) == [EmptySheet EXCEPT ![1] = HeaderRow]

\* __init__: _ensure_output_folder, then _create_workbook, which writes the
\* header row and makes the initial save, whose result is not looked at
ExcelGenerator_new(folder, outcome) ==
  IF folder = "raises"
  THEN /\ xlPc' = "failed"
       /\ xlOp' = "init"
       /\ xlSaved' = FALSE
       /\ UNCHANGED <<worksheet, merged, current_row, disk, xlRet, accepted,
                      nextId, finalized, finalizedAt>>
  ELSE LET ws == FreshSheet(worksheet) IN
       /\ worksheet' = ws
       /\ merged' = {}
       /\ disk' = FileAfterSave(outcome, ws, {}, disk)
       /\ xlSaved' = _save_workbook(outcome)
       /\ xlPc' = "ready"
       /\ current_row' = FirstDataRow
       /\ xlOp' = "init"
       /\ accepted' = <<>>
       /\ nextId' = 1
       /\ finalized' = 0
       /\ finalizedAt' = <<>>
       /\ UNCHANGED xlRet

ExcelGenerator_init ==
  /\ xlPc = "new"
  /\ \E folder \in FolderOutcomes, outcome \in SaveOutcomes :
       ExcelGenerator_new(folder, outcome)
  /\ XlFrame

\* Return value of add_analysis_result once the row is written and the
\* workbook saved: the result of _save_workbook is discarded
AppendReturn_Saved(saved) == saved
AppendReturn(saved) == TRUE

\* add_analysis_result(result) for the result with the given id and rating;
\* failCol: the column whose cell write raises (0: none), outcome: of the save
AppendResult(id, rating, failCol, outcome) ==
  /\ LET result == [id |-> id, rating |-> rating]
         data == RowData(result)
     IN IF failCol # 0
        THEN \* a cell write raises: columns before it stay written, the
             \* cursor is not advanced, nothing is saved
             /\ worksheet' = WriteCells(worksheet, current_row, data, failCol - 1)
             /\ xlRet' = FALSE
             /\ xlSaved' = FALSE
             /\ UNCHANGED <<current_row, disk, accepted>>
        ELSE LET ws == WriteCells(worksheet, current_row, data, NumCols)
                 ret == AppendReturn(_save_workbook(outcome))
             IN /\ worksheet' = ws
                /\ current_row' = current_row + 1
                /\ disk' = FileAfterSave(outcome, ws, merged, disk)
                /\ xlSaved' = _save_workbook(outcome)
                /\ xlRet' = ret
                /\ accepted' = IF ret THEN Append(accepted, id) ELSE accepted
  /\ nextId' = nextId + 1
  /\ xlOp' = "append"
  /\ UNCHANGED <<xlPc, merged, finalized, finalizedAt>>

add_analysis_result ==
  /\ xlPc = "ready"
  /\ nextId <= MaxAppends
  /\ \E rating \in Ratings, failCol \in FailCols, outcome \in SaveOutcomes :
       AppendResult(nextId, rating, failCol, outcome)
  /\ XlFrame

Label(text) == [k |-> "label", v |-> text]
Formula(fn, lo, hi) == [k |-> "formula", fn |-> fn, lo |-> lo, hi |-> hi]

\* The row cursor after finalize_excel: the method does not assign it
CursorAfterFinalize_Advance(row) == row + 1
CursorAfterFinalize(row) == row

\* COUNTIF(S) criteria of the summary formulas, applied to one rating value
Criterion(fn, v) ==
  CASE fn = ">=9" -> v >= 9
    [] fn = ">=7,<9" -> v >= 7 /\ v < 9
    [] fn = ">=5,<7" -> v >= 5 /\ v < 7
    [] fn = "<5" -> v < 5
    [] OTHER -> TRUE

\* 'if self.current_row > 2': the aggregate rows are written only when the
\* cursor has moved past the first data row
HasRows_Always(row) == TRUE
HasRows(row) == row > FirstDataRow

\* finalize_excel with the given outcome of the final save
Finalize(outcome) ==
  /\ LET summary_row == current_row + SummaryGap
         last == current_row - 1
         stats(r) ==
           CASE r = summary_row + 1 -> <<Label("Average Rating:"), Formula("AVERAGE", FirstDataRow, last)>>
             [] r = summary_row + 2 -> <<Label("High Quality (9-10):"), Formula(">=9", FirstDataRow, last)>>
             [] r = summary_row + 3 -> <<Label("Good Quality (7-8):"), Formula(">=7,<9", FirstDataRow, last)>>
             [] r = summary_row + 4 -> <<Label("Average Quality (5-6):"), Formula(">=5,<7", FirstDataRow, last)>>
             [] r = summary_row + 5 -> <<Label("Below Standard (<5):"), Formula("<5", FirstDataRow, last)>>
             [] OTHER -> <<Label("Total Questions:"), [k |-> "int", v |-> current_row - FirstDataRow]>>
         ws == [r \in Rows |-> [c \in Cols |->
                  IF r = summary_row /\ c = 1 THEN Label("ANALYSIS SUMMARY")
                  ELSE IF HasRows(current_row) /\ r \in (summary_row + 1)..(summary_row + 6) /\ c \in {1, 2}
                       THEN stats(r)[c]
                  ELSE IF r = summary_row + MetadataGap /\ c = 1 THEN Label("Generated on:")
                  ELSE worksheet[r][c]]]
         mg == merged \cup {summary_row}
     IN /\ worksheet' = ws
        /\ merged' = mg
        /\ disk' = FileAfterSave(outcome, ws, mg, disk)
        /\ xlSaved' = _save_workbook(outcome)
  /\ current_row' = CursorAfterFinalize(current_row)
  /\ finalized' = finalized + 1
  /\ finalizedAt' = Append(finalizedAt, Len(accepted))
  /\ xlOp' = "finalize"
  /\ UNCHANGED <<xlPc, xlRet, accepted, nextId>>

finalize_excel ==
  /\ xlPc = "ready"
  /\ finalized < MaxFinalize
  /\ \E outcome \in SaveOutcomes : Finalize(outcome)
  /\ XlFrame

XlInit ==
  /\ xlPc = "new"
  /\ worksheet = EmptySheet
  /\ merged = {}
  /\ current_row = FirstDataRow
  /\ disk = [st |-> "absent", ws |-> EmptySheet, merged |-> {}]
  /\ xlOp = "none"
  /\ xlRet = FALSE
  /\ xlSaved = FALSE
  /\ accepted = <<>>
  /\ nextId = 1
  /\ finalized = 0
  /\ finalizedAt = <<>>

(***************************************************************************)
(* QuestionParser.format_question_for_analysis                             *)
(***************************************************************************)
DigitChar(d) ==
  CASE d = 0 -> "0" [] d = 1 -> "1" [] d = 2 -> "2" [] d = 3 -> "3"
    [] d = 4 -> "4" [] d = 5 -> "5" [] d = 6 -> "6" [] d = 7 -> "7"
    [] d = 8 -> "8" [] OTHER -> "9"
\* str(n) for n >= 0
RECURSIVE IntText(_)
IntText(n) == IF n < 10 THEN <<DigitChar(n)>> ELSE IntText(n \div 10) \o <<DigitChar(n % 10)>>

Question(subject, topic, subtopic, question_number, question_text, options, correct_answer, explanation) ==
  [subject |-> subject, topic |-> topic, subtopic |-> subtopic,
   question_number |-> question_number, question_text |-> question_text,
   options |-> options, correct_answer |-> correct_answer, explanation |-> explanation]

format_question_for_analysis(question) ==
  <<"S","u","b","j","e","c","t",":"," ">> \o question.subject \o <<NL>>
  \o <<"T","o","p","i","c",":"," ">> \o question.topic \o <<NL>>
  \o <<"S","u","b","t","o","p","i","c",":"," ">> \o question.subtopic \o <<NL, NL>>
  \o <<"Q","u","e","s","t","i","o","n"," ">> \o IntText(question.question_number)
  \o <<":"," ">> \o question.question_text \o <<NL, NL>>
  \o <<"O","p","t","i","o","n","s",":",NL>> \o Join(question.options, <<NL>>) \o <<NL, NL>>
  \o <<"C","o","r","r","e","c","t"," ","A","n","s","w","e","r",":"," ">>
  \o question.correct_answer \o <<NL, NL>>
  \o <<"E","x","p","l","a","n","a","t","i","o","n",":"," ">> \o question.explanation

(***************************************************************************)
(* QuestionParser                                                          *)
(***************************************************************************)
SeparatorLen == 60     \* self.question_separator = "=" * 60
HeaderWindow == 10     \* for line in lines[:10]
NumOptions == 4        \* if len(options) != 4: return None

question_separator == Rep("=", SeparatorLen)
QuestionMarker == <<"*","*","Q","U","E","S","T","I","O","N">>
StarStar == <<"*","*">>
QMarker == <<"*","*","Q",":","*","*">>
AnswerMarker == <<"*","*","C","o","r","r","e","c","t"," ","A","n","s","w","e","r",":","*","*">>
ExplanationMarker == <<"*","*","E","x","p","l","a","n","a","t","i","o","n",":","*","*">>
SubjectPrefix == <<"S","u","b","j","e","c","t",":">>
TopicPrefix == <<"T","o","p","i","c",":">>
SubtopicPrefix == <<"S","u","b","t","o","p","i","c",":">>
OptionLetters == {"A", "B", "C", "D"}

\* s.replace(sub, '')
Remove(s, sub) == Join(Split(s, sub), <<>>)

\* position after the maximal run of whitespace that starts at p
SkipWs(s, p) ==
  LET N == {q \in p..Len(s) : s[q] \notin Whitespace}
  IN IF N = {} THEN Len(s) + 1 ELSE MinOf(N)

\* _extract_header_info: the loop over lines[:10], from line i on
RECURSIVE HeaderScan(_, _, _)
HeaderScan(lines, i, header_info) ==
  IF i > Len(lines) \/ i > HeaderWindow THEN header_info
  ELSE LET line == Strip(lines[i]) IN
    IF StartsWith(line, SubjectPrefix)
    THEN HeaderScan(lines, i + 1, [header_info EXCEPT !.subject = Strip(Remove(line, SubjectPrefix))])
    ELSE IF StartsWith(line, TopicPrefix)
    THEN HeaderScan(lines, i + 1, [header_info EXCEPT !.topic = Strip(Remove(line, TopicPrefix))])
    ELSE IF StartsWith(line, SubtopicPrefix)
    THEN [header_info EXCEPT !.subtopic = Strip(Remove(line, SubtopicPrefix))]
    ELSE HeaderScan(lines, i + 1, header_info)

_extract_header_info(text) ==
  HeaderScan(Split(text, <<NL>>), 1, [subject |-> <<>>, topic |-> <<>>, subtopic |-> <<>>])

\* _split_into_question_blocks
_split_into_question_blocks(text) ==
  LET blocks == Split(text, question_separator)
      stripped == [i \in 1..Len(blocks) |-> Strip(blocks[i])]
  IN SelectSeq(stripped, LAMBDA block : block # <<>> /\ Contains(block, QuestionMarker))

\* re.search(r'\*\*QUESTION\s+(\d+)\*\*', block): the digits of the leftmost
\* match at or after position p, <<>> when there is none
QuestionNumberAt(block, p) ==
  LET ws == p + Len(QuestionMarker)
      d == SkipWs(block, ws)
      e == DigitRunEnd(block, d)
  IN IF MatchAt(block, p, QuestionMarker) /\ d > ws /\ e >= d /\ MatchAt(block, e + 1, StarStar)
     THEN SubSeq(block, d, e) ELSE <<>>
QuestionNumberDigits(block) ==
  LET P == {p \in 1..Len(block) : QuestionNumberAt(block, p) # <<>>}
  IN IF P = {} THEN <<>> ELSE QuestionNumberAt(block, MinOf(P))

\* re.match(r'^\s*[A-D]\.', line) on a stripped line
IsOptionLine(line) == Len(line) >= 2 /\ line[1] \in OptionLetters /\ line[2] = "."

\* _extract_question_text: the loop over the lines, from line i on
RECURSIVE QuestionTextScan(_, _, _, _)
QuestionTextScan(lines, i, in_question, question_lines) ==
  IF i > Len(lines) THEN question_lines
  ELSE LET line == Strip(lines[i]) IN
    IF StartsWith(line, QMarker)
    THEN QuestionTextScan(lines, i + 1, TRUE, Append(question_lines, Strip(Remove(line, QMarker))))
    ELSE IF in_question /\ IsOptionLine(line) THEN question_lines
    ELSE IF in_question /\ line # <<>>
    THEN QuestionTextScan(lines, i + 1, in_question, Append(question_lines, line))
    ELSE QuestionTextScan(lines, i + 1, in_question, question_lines)
_extract_question_text(block) ==
  Strip(Join(QuestionTextScan(Split(block, <<NL>>), 1, FALSE, <<>>), <<" ">>))

\* f"{option_letter}. {option_text}" for a stripped line matching
\* r'^([A-D])\.\s*(.*)'
OptionOf(line) == <<line[1], ".", " ">> \o Slice(line, SkipWs(line, 3), Len(line))
\* _extract_options
_extract_options(block) ==
  LET lines == Split(block, <<NL>>)
      stripped == [i \in 1..Len(lines) |-> Strip(lines[i])]
      optionLines == SelectSeq(stripped, IsOptionLine)
  IN [i \in 1..Len(optionLines) |-> OptionOf(optionLines[i])]

\* re.search(r'\*\*Correct Answer:\*\*\s*([A-D])\.\s*([^\n]+)', block) tried at
\* position p: <<letter position, start of group 2>>, <<>> when no match
AnswerAt(block, p) ==
  LET l == SkipWs(block, p + Len(AnswerMarker))
      g == IF l + 1 <= Len(block) THEN CaptureAfterWs(block, l + 2) ELSE 0
  IN IF /\ MatchAt(block, p, AnswerMarker)
        /\ l + 1 <= Len(block)
        /\ block[l] \in OptionLetters
        /\ block[l + 1] = "."
        /\ g # 0
     THEN <<l, g>> ELSE <<>>

\* _extract_answer_and_explanation: <<correct_answer, explanation>>, <<>> for None
_extract_answer_and_explanation(block) ==
  LET A == {p \in 1..Len(block) : AnswerAt(block, p) # <<>>}
      x == FindFrom(block, ExplanationMarker, 1)
  IN IF A = {} \/ x = 0 THEN <<>>
     ELSE LET a == AnswerAt(block, MinOf(A))
              from == x + Len(ExplanationMarker)
              blank == FindFrom(block, <<NL, NL>>, from)
              to == IF blank = 0 THEN Len(block) ELSE blank - 1
          IN << <<block[a[1]], ".", " ">> \o SubSeq(block, a[2], LineEnd(block, a[2])),
                Strip(Slice(block, from, to)) >>

\* _parse_question_block without the check of the number of options
_parse_question_block_AnyOptions(block, header_info) ==
  LET digits == QuestionNumberDigits(block)
      question_text == _extract_question_text(block)
      options == _extract_options(block)
      answer_info == _extract_answer_and_explanation(block)
  IN IF digits = <<>> THEN Null
     ELSE IF question_text = <<>> THEN Null
     ELSE IF answer_info = <<>> THEN Null
     ELSE Question(header_info.subject, header_info.topic, header_info.subtopic,
              ToInt(digits), question_text, options, answer_info[1], answer_info[2])

\* _parse_question_block: Null for None
_parse_question_block(block, header_info) ==
  LET digits == QuestionNumberDigits(block)
      question_text == _extract_question_text(block)
      options == _extract_options(block)
      answer_info == _extract_answer_and_explanation(block)
  IN IF digits = <<>> THEN Null
     ELSE IF question_text = <<>> THEN Null
     ELSE IF Len(options) # NumOptions THEN Null
     ELSE IF answer_info = <<>> THEN Null
     ELSE Question(header_info.subject, header_info.topic, header_info.subtopic,
              ToInt(digits), question_text, options, answer_info[1], answer_info[2])

\* parse_content: the result of _parse_question_block for each block
ParseBlocks(text) ==
  LET header_info == _extract_header_info(text)
      blocks == _split_into_question_blocks(text)
  IN [i \in 1..Len(blocks) |-> _parse_question_block(blocks[i], header_info)]

(***************************************************************************)
(* Input documents                                                         *)
(***************************************************************************)
NumberLine(n) == QuestionMarker \o <<" ">> \o IntText(n) \o StarStar
QLine == QMarker \o <<" ","W","h","a","t","?">>
OptLine(letter) == <<letter, ".", " ", "o", "p", "t">>
AnsLine == AnswerMarker \o <<" ","B","."," ","o","p","t">>
ExplLine == ExplanationMarker \o <<" ","w","h","y">>
FourOptions == <<OptLine("A"), OptLine("B"), OptLine("C"), OptLine("D")>>

\* The block variants.  wf: the block has the marker, a **Q:** line, four
\* A-D option lines, a correct-answer line and an explanation section.
\* lacks: the required elements the block does not have.
BlockVariant(name, wf, lacks, lines) ==
  [name |-> name, wf |-> wf, lacks |-> lacks, text |-> Join(lines, <<NL>>)]
BlockVariants(n) ==
  { BlockVariant("plain", TRUE, {},
      <<NumberLine(n), QLine>> \o FourOptions \o << <<>>, AnsLine, <<>>, ExplLine>>),
    BlockVariant("spread", TRUE, {},
      <<NumberLine(n), <<>>, QLine, <<"i","n"," ","R","o","m","e">>,
        <<" "," ">> \o OptLine("A"), OptLine("B"), <<"C",".","o","p","t">>, OptLine("D"),
        AnsLine, ExplLine, <<"a","n","d"," ","s","o">>, <<>>, <<"N","o","t","e">> >>),
    BlockVariant("explanation names an option", TRUE, {},
      <<NumberLine(n), QLine>> \o FourOptions
      \o <<AnsLine, ExplLine, <<"A","."," ","i","s"," ","w","r","o","n","g">> >>),
    BlockVariant("empty explanation", TRUE, {},
      <<NumberLine(n), QLine>> \o FourOptions \o <<AnsLine, ExplanationMarker>>),
    BlockVariant("no marker", FALSE, {"marker"},
      <<QLine>> \o FourOptions \o <<AnsLine, ExplLine>>),
    BlockVariant("marker without number", FALSE, {"marker"},
      << QuestionMarker \o <<" ","x">> \o StarStar, QLine>> \o FourOptions \o <<AnsLine, ExplLine>>),
    BlockVariant("no question line", FALSE, {"question"},
      <<NumberLine(n)>> \o FourOptions \o <<AnsLine, ExplLine>>),
    BlockVariant("empty question", FALSE, {"question"},
      <<NumberLine(n), QMarker>> \o FourOptions \o <<AnsLine, ExplLine>>),
    BlockVariant("three options", FALSE, {"options"},
      <<NumberLine(n), QLine, OptLine("A"), OptLine("B"), OptLine("C"), AnsLine, ExplLine>>),
    BlockVariant("five options", FALSE, {"options"},
      <<NumberLine(n), QLine>> \o FourOptions \o <<OptLine("D"), AnsLine, ExplLine>>),
    BlockVariant("no answer", FALSE, {"answer"},
      <<NumberLine(n), QLine>> \o FourOptions \o <<ExplLine>>),
    BlockVariant("no explanation", FALSE, {"explanation"},
      <<NumberLine(n), QLine>> \o FourOptions \o <<AnsLine>>),
    BlockVariant("prose only", FALSE, {"marker", "question", "options", "answer", "explanation"},
      << <<"E","n","d"," ","o","f"," ","f","i","l","e">> >>) }

HeaderVariants ==
  { <<>>,
    <<SubjectPrefix \o <<" ","H","i","s","t">>, TopicPrefix \o <<" ","A","n","c">>,
      SubtopicPrefix \o <<" ","R","o","m","e">>, <<>> >> }

\* The documents: a header, then the blocks, each after a separator line;
\* block i carries the number i
RECURSIVE DocShapes(_)
DocShapes(k) ==
  IF k = 0 THEN {<<>>}
  ELSE LET shorter == DocShapes(k - 1)
       IN shorter \cup {Append(d, b) : d \in {x \in shorter : Len(x) = k - 1}, b \in BlockVariants(k)}
DocText(header, blocks) ==
  Join(header \o [i \in 1..(2 * Len(blocks)) |->
                    IF i % 2 = 1 THEN question_separator ELSE blocks[i \div 2].text], <<NL>>)

\* parse_content
parse_content ==
  /\ psPc = "input"
  /\ LET parsed == ParseBlocks(content)
     IN /\ question_blocks' = _split_into_question_blocks(content)
        /\ questions' = SelectSeq(parsed, LAMBDA q : q # Null)
  /\ psPc' = "parsed"
  /\ UNCHANGED <<content, docShape>>
  /\ UNCHANGED <<xlVars, azVars, orVars, ssVars>>

PsIdle ==
  /\ psPc = "parsed"
  /\ content = <<>>
  /\ docShape = [header |-> <<>>, blocks |-> <<>>]
  /\ question_blocks = <<>>
  /\ questions = <<>>

PsInit ==
  /\ psPc = "input"
  /\ \E header \in HeaderVariants, blocks \in DocShapes(MaxBlocks) :
       /\ docShape = [header |-> header,
                      blocks |-> [i \in 1..Len(blocks) |->
                                    [name |-> blocks[i].name, wf |-> blocks[i].wf, lacks |-> blocks[i].lacks]]]
       /\ content = DocText(header, blocks)
  /\ question_blocks = <<>>
  /\ questions = <<>>

\* Documents whose blocks differ in the marker's number, the option labels
\* and the label of the correct answer
BlockNumbers == {0, 1, 2}
LabelRows == {<<"A", "B", "C", "D">>, <<"A", "B", "C", "C">>}
AnswerLabels == {"B", "D"}
NumberedBlock(n, labels, answer) ==
  [name |-> "numbered", wf |-> TRUE, lacks |-> {},
   number |-> n, labels |-> labels, answer |-> answer,
   text |-> Join(<<NumberLine(n), QLine>>
                 \o [i \in 1..NumOptions |-> OptLine(labels[i])]
                 \o <<AnswerMarker \o <<" ", answer, ".", " ", "o", "p", "t">>, ExplLine>>,
                 <<NL>>)]
NumberedBlocks ==
  {NumberedBlock(n, labels, answer) :
     n \in BlockNumbers, labels \in LabelRows, answer \in AnswerLabels}
RECURSIVE NumberedDocs(_)
NumberedDocs(k) ==
  IF k = 0 THEN {<<>>}
  ELSE LET shorter == NumberedDocs(k - 1)
       IN shorter \cup {Append(d, b) : d \in {x \in shorter : Len(x) = k - 1}, b \in NumberedBlocks}

PsInitNumbered ==
  /\ psPc = "input"
  /\ \E blocks \in NumberedDocs(MaxBlocks) :
       /\ docShape = [header |-> <<>>,
                      blocks |-> [i \in 1..Len(blocks) |->
                                    [name |-> blocks[i].name, wf |-> blocks[i].wf, lacks |-> blocks[i].lacks,
                                     number |-> blocks[i].number, labels |-> blocks[i].labels,
                                     answer |-> blocks[i].answer]]]
       /\ content = DocText(<<>>, blocks)
  /\ question_blocks = <<>>
  /\ questions = <<>>

\* Documents that differ in the lines before the first block: up to
\* MaxHeaderLines lines, each a Subject:, Topic: or Subtopic: line or a line
\* of prose, after a run of prose lines that moves them towards or beyond
\* the end of the header window
MaxHeaderLines == 3
SubjectLine == SubjectPrefix \o <<" ","H","i","s","t">>
TopicLine == TopicPrefix \o <<" ","A","n","c">>
SubtopicLine == SubtopicPrefix \o <<" ","R","o","m","e">>
ProseLine == <<"N","o","t","e","s">>
HeaderLines == {SubjectLine, TopicLine, SubtopicLine, ProseLine}
RECURSIVE HeaderSeqs(_)
HeaderSeqs(k) ==
  IF k = 0 THEN {<<>>}
  ELSE LET shorter == HeaderSeqs(k - 1)
       IN shorter \cup {Append(h, l) : h \in {x \in shorter : Len(x) = k - 1}, l \in HeaderLines}
\* in a file the lines come first or after 8 lines of prose; in a submitted
\* text, which follows the two lines the web session puts first, after 6
HeaderDocs(pad) ==
  {[i \in 1..n |-> ProseLine] \o h : n \in {0, pad}, h \in HeaderSeqs(MaxHeaderLines)}
FileHeaders == HeaderDocs(HeaderWindow - 2)
WebHeaders == HeaderDocs(HeaderWindow - 4)
TwoBlocks ==
  <<BlockVariant("plain", TRUE, {},
      <<NumberLine(1), QLine>> \o FourOptions \o << <<>>, AnsLine, <<>>, ExplLine>>),
    BlockVariant("plain", TRUE, {},
      <<NumberLine(2), QLine>> \o FourOptions \o << <<>>, AnsLine, <<>>, ExplLine>>)>>

\* What the web form submits as subject, topic and subtopic: start_analysis
\* strips the fields and rejects an empty one
PlainForm ==
  [subject |-> <<"H","i","s","t">>, topic |-> <<"A","n","c">>, subtopic |-> <<"R","o","m","e">>]
PrefixedForm ==
  [subject |-> SubjectPrefix \o <<"G","e","o">>, topic |-> <<"A","n","c">>,
   subtopic |-> <<"R","o","m","e">>]
WebInputs == (WebHeaders \X {PlainForm}) \cup {<<<<>>, PrefixedForm>>}
NoForm == [subject |-> <<>>, topic |-> <<>>, subtopic |-> <<>>]

\* formatted_text with the three fields on a line each
formatted_text_Lines(subject, topic, subtopic, question_text) ==
  SubjectPrefix \o subject \o <<NL>> \o TopicPrefix \o topic \o <<NL>>
  \o SubtopicPrefix \o subtopic \o <<NL, NL>> \o question_text

\* f"Subject:{subject}. Topic:{topic}   Subtopic:{subtopic}\n\n{question_text}"
formatted_text(subject, topic, subtopic, question_text) ==
  SubjectPrefix \o subject \o <<".", " ">> \o TopicPrefix \o topic
  \o <<" ", " ", " ">> \o SubtopicPrefix \o subtopic \o <<NL, NL>> \o question_text

\* WebAnalysisSession.analyze_questions, up to the call of parse_content:
\* the submitted text gets the header line
web_format ==
  /\ psPc = "form"
  /\ content' = formatted_text(docShape.form.subject, docShape.form.topic,
                               docShape.form.subtopic, content)
  /\ psPc' = "input"
  /\ UNCHANGED <<docShape, question_blocks, questions>>
  /\ UNCHANGED <<xlVars, azVars, orVars, ssVars>>

\* a file read by the CLI, or a text submitted with the web form
PsInitHeaders ==
  /\ \/ \E header \in FileHeaders :
          /\ psPc = "input"
          /\ docShape = [header |-> header, blocks |-> <<>>, origin |-> "file", form |-> NoForm]
          /\ content = DocText(header, TwoBlocks)
     \/ \E input \in WebInputs :
          /\ psPc = "form"
          /\ docShape = [header |-> input[1], blocks |-> <<>>, origin |-> "web", form |-> input[2]]
          /\ content = Strip(DocText(input[1], TwoBlocks))
  /\ question_blocks = <<>>
  /\ questions = <<>>

(***************************************************************************)
(* OllamaAnalyzer.analyze_question                                         *)
(***************************************************************************)
\* Records handed to analyze_question: the classification values vary
SampleQuestion(subject, topic, subtopic) ==
  Question(subject, topic, subtopic, 1, <<"Q","?">>,
           <<<<"A","."," ","a">>, <<"B","."," ","b">>, <<"C","."," ","c">>, <<"D","."," ","d">>>>,
           <<"B","."," ","b">>, <<"e">>)
\* A record whose text is longer than the bound on the question field
LongQuestion ==
  Question(<<"H","i","s","t">>, <<"A","n","c">>, <<"R","o","m","e">>, 1, Rep("q", LongLen + 1),
           <<<<"A","."," ","a">>, <<"B","."," ","b">>, <<"C","."," ","c">>, <<"D","."," ","d">>>>,
           <<"B","."," ","b">>, <<"e">>)
AzQuestions ==
  { SampleQuestion(<<"H","i","s","t">>, <<"A","n","c">>, <<"R","o","m","e">>),
    SampleQuestion(<<>>, <<>>, <<>>),
    SampleQuestion(Rep("a", SubjectLen + 1), <<"A","n","c">>, <<"R","o","m","e">>),
    SampleQuestion(<<"A","|","B">>, <<"A","n","c">>, <<"R","o","m","e">>),
    SampleQuestion(<<"G","r","a","m">>, <<"S","u","b","j","e","c","t","s">>, <<"V","e","r","b">>),
    SampleQuestion(<<"-","-","-">>, <<"A","n","c">>, <<"R","o","m","e">>) }

\* A table row made of the given cells, each padded by pad on both sides
TableRow(cells, pad) ==
  PIPE \o Join([i \in 1..Len(cells) |-> pad \o cells[i] \o pad], PIPE) \o PIPE

\* The row a backend echoing the record answers with
EchoRow(question, pad) ==
  TableRow(<<question.subject, question.topic, question.subtopic, question.question_text,
             question.correct_answer, <<"8","/","1","0">>, <<"d","e","e","p">>, <<"o","k">>,
             <<"h","i","g","h">>, <<"b","e","t","t","e","r">>>>, pad)
Pads == {<<>>, <<" ">>}

\* A table row of n cells with the given rating cell
RowWithRating(cell, n) ==
  TableRow([i \in 1..n |-> IF i = RatingCell THEN cell ELSE <<"c", DigitChar(i % 10)>>], <<" ">>)

\* Lines a backend response is made of
ResponseLines ==
  { RowWithRating(<<"8","/","1","0">>, MinCells),
    RowWithRating(<<"1","5">>, MinCells + 1),
    RowWithRating(<<"a","7","b","1","2">>, MinCells),
    RowWithRating(<<"x">>, MinCells + 1),
    RowWithRating(<<"9">>, MinCells - 1),
    <<"|"," ","S","u","b","j","e","c","t"," ","|"," ","T","o","p","i","c"," ","|">>,
    <<"|","-","-","-","|","-","-","-","|">>,
    <<"S","u","b","j","e","c","t",":"," ","H","i","s","t">>,
    <<"S","u","b","t","o","p","i","c",":"," ","R","o","m","e">>,
    <<"R","a","t","i","n","g",":"," ","7","/","1","0">>,
    <<"r","a","t","i","n","g"," ","4","2"," ","%">>,
    <<"C","o","n","c","e","p","t","u","a","l"," ","D","e","p","t","h",":"," ","d","e","e","p">>,
    <<"-"," ","a","n","d"," ","A","n","s","w","e","r"," ","A","c","c","u","r","a","c","y"," ","o","k">>,
    <<"T","o","p","i","c","-","S","u","b","t","o","p","i","c"," ","R","e","l","e","v","a","n","c","e",":"," ","h","i">>,
    <<"n","o"," ","i","d","e","a">> }

\* Lines that may come before another line of a response
LeadLines ==
  { <<"|"," ","S","u","b","j","e","c","t"," ","|"," ","T","o","p","i","c"," ","|">>,
    <<"|","-","-","-","|","-","-","-","|">>,
    RowWithRating(<<"0","0","9">>, MinCells),
    <<"R","a","t","i","n","g"," ","i","s">> }

\* A table row each of whose cells is one character longer than the bound
\* of its field
LongRow(n) ==
  TableRow([i \in 1..n |->
              IF i <= 3 THEN Rep("s", SubjectLen + 1)
              ELSE IF i \in {4, 5, 10} THEN Rep("l", LongLen + 1)
              ELSE IF i = RatingCell THEN <<"7">>
              ELSE Rep("m", CommentLen + 1)], <<" ">>)

\* Labelled lines whose values are one character longer than the bound of
\* their field
LongLabels ==
  Join(<<SubjectWord \o <<":"," ">> \o Rep("1", SubjectLen + 1),
         TopicWord \o <<":"," ">> \o Rep("2", SubjectLen + 1),
         SubtopicWord \o <<":"," ">> \o Rep("3", SubjectLen + 1),
         DepthWords \o <<":"," ">> \o Rep("4", CommentLen + 1),
         AccuracyWords \o <<":"," ">> \o Rep("5", CommentLen + 1),
         TopicWord \o <<" ">> \o RelevanceWord \o <<":"," ">> \o Rep("6", CommentLen + 1)>>, <<NL>>)

TextResponse(text) == [kind |-> "text", text |-> text]
\* What ollama.chat answers for the long record: an exception, the long
\* rows of nine and ten cells, the long labelled lines, or a text without
\* table row or label
LongOutcomes ==
  {[kind |-> "raise"], TextResponse(LongRow(MinCells)), TextResponse(LongRow(MinCells + 1)),
   TextResponse(LongLabels), TextResponse(<<"n","o"," ","i","d","e","a">>)}
\* What ollama.chat can answer for a record: an exception, a reply whose
\* content is not text, or a text of one or two lines
BackendOutcomes(question) ==
  IF question = LongQuestion THEN LongOutcomes
  ELSE
  {[kind |-> "raise"], [kind |-> "nontext"], TextResponse(<<>>)}
  \cup {TextResponse(l) : l \in ResponseLines}
  \cup {TextResponse(h \o <<NL>> \o l) : h \in LeadLines, l \in ResponseLines}
  \cup {TextResponse(EchoRow(question, pad)) : pad \in Pads}

\* what analyze_question leaves alone
AzFrame == UNCHANGED <<xlVars, psVars, orVars, ssVars>>

\* TryAttempt without the except clause
TryAttempt_NoHandler(outcome, question_text) ==
  IF outcome.kind = "raise"
  THEN [result |-> Null, escaped |-> TRUE]
  ELSE [result |-> _parse_analysis_response(outcome, question_text), escaped |-> FALSE]

\* TryAttempt counting a result of the fallback parser as a failure
TryAttempt_RetryFallback(outcome, question_text) ==
  IF outcome.kind = "raise"
  THEN [result |-> Null, escaped |-> FALSE]
  ELSE LET parsed == _parse_analysis_response(outcome, question_text)
       IN [result |-> IF parsed # Null /\ parsed.via = "fallback" THEN Null ELSE parsed,
           escaped |-> FALSE]

\* One pass through the body of the for loop: the try block with its
\* handler.  escaped: an exception leaves analyze_question.
TryAttempt(outcome, question_text) ==
  IF outcome.kind = "raise"
  THEN [result |-> Null, escaped |-> FALSE]      \* except Exception as e
  ELSE [result |-> _parse_analysis_response(outcome, question_text), escaped |-> FALSE]

\* SleepsAfter sleeping after every failed attempt
SleepsAfter_Always(failed_attempt, retries) == TRUE

\* if attempt < self.max_retries - 1: time.sleep(self.retry_delay)
SleepsAfter(failed_attempt, retries) == failed_attempt < retries - 1

\* for attempt in range(self.max_retries): one iteration
analyze_attempt ==
  /\ azPc = "loop"
  /\ attempt < max_retries
  /\ LET question_text == format_question_for_analysis(azQuestion) IN
     \E outcome \in BackendOutcomes(azQuestion) :
       \E t \in {TryAttempt(outcome, question_text)} :
       /\ azResponse' = outcome
       /\ calls' = calls + 1
       /\ IF t.escaped
          THEN /\ azRaised' = TRUE
               /\ azPc' = "done"
               /\ UNCHANGED <<azResult, attempt, delays>>
          ELSE IF t.result # Null
          THEN /\ azResult' = t.result
               /\ azPc' = "done"
               /\ UNCHANGED <<azRaised, attempt, delays>>
          ELSE /\ delays' = IF SleepsAfter(attempt, max_retries) THEN delays + 1 ELSE delays
               /\ attempt' = attempt + 1
               /\ UNCHANGED <<azPc, azResult, azRaised>>
  /\ UNCHANGED <<max_retries, azQuestion>>
  /\ AzFrame

\* return None, once the loop has run out
analyze_exhausted ==
  /\ azPc = "loop"
  /\ attempt >= max_retries
  /\ azPc' = "done"
  /\ azResult' = Null
  /\ UNCHANGED <<max_retries, azQuestion, attempt, calls, delays, azResponse, azRaised>>
  /\ AzFrame

AzIdle ==
  /\ azPc = "done"
  /\ max_retries = 0
  /\ azQuestion = SampleQuestion(<<>>, <<>>, <<>>)
  /\ attempt = 0
  /\ calls = 0
  /\ delays = 0
  /\ azResponse = Null
  /\ azResult = Null
  /\ azRaised = FALSE

AzInit ==
  /\ azPc = "loop"
  /\ \/ max_retries \in 0..MaxRetriesCfg /\ azQuestion \in AzQuestions
     \/ max_retries = 1 /\ azQuestion = LongQuestion
  /\ attempt = 0
  /\ calls = 0
  /\ delays = 0
  /\ azResponse = Null
  /\ azResult = Null
  /\ azRaised = FALSE

(***************************************************************************)
(* The orchestrators: UPSCAnalyzer.analyze_file behind main (CLI) and      *)
(* WebAnalysisSession.analyze_questions (web), for one file or text        *)
(***************************************************************************)
\* what a run leaves alone
OrFrame == UNCHANGED <<azVars, psVars, ssVars>>
\* what a step inside the run of one file leaves alone
FileFrame == UNCHANGED <<fileNo, producing>>

\* what the connectivity probe can meet
BackendStates == {"reachable", "unreachable"}

\* test_connection: True when the probe's ollama.chat returns, False when
\* it raises
test_connection_AlwaysTrue(state) == TRUE
test_connection(state) == state = "reachable"

\* check_prerequisites: the probe, then the input folder and its files
check_prerequisites(state, input_found) ==
  IF ~test_connection(state) THEN FALSE ELSE input_found

\* 'if self.interrupted: break' at the head of the CLI loop
InterruptCheck_Ignored(flag) == FALSE
InterruptCheck(flag) == flag

\* main: check_prerequisites; sys.exit(1) when it fails
cli_check_prerequisites ==
  /\ orMode = "cli"
  /\ orPc = "start"
  /\ \E state \in BackendStates, input_found \in BOOLEAN :
       /\ backend' = state
       /\ orPc' = IF check_prerequisites(state, input_found) THEN "parse" ELSE "exit"
  /\ UNCHANGED <<orMode, orTotal, orIdx, interrupted, interruptedAt, analyzed, orLog>>
  /\ UNCHANGED xlVars
  /\ FileFrame
  /\ OrFrame

\* What _ensure_output_folder can meet: once a generator of this process has
\* been constructed the folder exists
FolderNow == IF xlPc = "ready" THEN {"exists"} ELSE FolderOutcomes

\* analyze_file up to the loop: parse_file, 'if not questions: return False',
\* then ExcelGenerator(self.config); an exception of the constructor is
\* caught by the outer handler, which returns False
cli_analyze_file_begin ==
  /\ orMode = "cli"
  /\ orPc = "parse"
  /\ IF orTotal = 0
     THEN orPc' = "done" /\ UNCHANGED <<xlVars, producing>>
     ELSE \E folder \in FolderNow, outcome \in SaveOutcomes :
            /\ ExcelGenerator_new(folder, outcome)
            /\ orPc' = IF folder = "raises" THEN "done" ELSE "check"
            /\ producing' = IF folder = "raises" THEN producing ELSE fileNo
  /\ UNCHANGED <<orMode, backend, orTotal, orIdx, interrupted, interruptedAt, analyzed, orLog,
                 fileNo>>
  /\ OrFrame

\* analyze_questions up to the probe: parse_content, 'if not questions'
web_parse ==
  /\ orMode = "web"
  /\ orPc = "start"
  /\ orPc' = IF orTotal = 0 THEN "exit" ELSE "probe"
  /\ UNCHANGED <<orMode, backend, orTotal, orIdx, interrupted, interruptedAt, analyzed, orLog>>
  /\ UNCHANGED xlVars
  /\ FileFrame
  /\ OrFrame

\* analyze_questions: test_connection, then ExcelGenerator(excel_config); an
\* exception of the constructor is caught by the outer handler (status error)
web_probe_and_construct ==
  /\ orMode = "web"
  /\ orPc = "probe"
  /\ \E state \in BackendStates :
       /\ backend' = state
       /\ IF ~test_connection(state)
          THEN orPc' = "exit" /\ UNCHANGED xlVars
          ELSE \E folder \in FolderOutcomes, outcome \in SaveOutcomes :
                 /\ ExcelGenerator_new(folder, outcome)
                 /\ orPc' = IF folder = "raises" THEN "exit" ELSE "check"
  /\ UNCHANGED <<orMode, orTotal, orIdx, interrupted, interruptedAt, analyzed, orLog>>
  /\ FileFrame
  /\ OrFrame

\* head of 'for i, question in enumerate(questions, 1)': the loop ends after
\* the last record; the CLI loop also ends when the flag is set
loop_head ==
  /\ orPc = "check"
  /\ IF orIdx = orTotal \/ (orMode = "cli" /\ InterruptCheck(interrupted))
     THEN orPc' = "finalize" /\ UNCHANGED orIdx
     ELSE orPc' = "record" /\ orIdx' = orIdx + 1
  /\ UNCHANGED <<orMode, backend, orTotal, interrupted, interruptedAt, analyzed, orLog>>
  /\ UNCHANGED xlVars
  /\ FileFrame
  /\ OrFrame

\* What analyze_question returns to the orchestrator: None or a result
AnalysisOutcomes == {"none", "result"}

\* The result of record i of file f, as a number
RecordId(f, i) == (f - 1) * (MaxAppends + 1) + i
FileOfId(id) == ((id - 1) \div (MaxAppends + 1)) + 1

\* body of the loop for record orIdx: analyze_question, then
\* add_analysis_result when there is a result; raised: the progress tracker
\* raises after a successful append (CLI), caught by the handler of the body.
\* ratings, failCols, outcomes, raises: what the step can meet.
ProcessRecord(ratings, failCols, outcomes, raises) ==
  /\ orPc = "record"
  /\ analyzed' = Append(analyzed, orIdx)
  /\ \E analysis \in AnalysisOutcomes :
       IF analysis = "none"
       THEN /\ orLog' = Append(orLog, "analysis failed")
            /\ UNCHANGED xlVars
       ELSE \E rating \in ratings, failCol \in failCols, outcome \in outcomes,
               raised \in (IF orMode = "cli" THEN raises ELSE {FALSE}) :
              /\ AppendResult(RecordId(fileNo, orIdx), rating, failCol, outcome)
              /\ orLog' = Append(orLog, IF ~xlRet' THEN "append failed"
                                       ELSE IF raised THEN "exception" ELSE "success")
  /\ orPc' = "check"
  /\ UNCHANGED <<orMode, backend, orTotal, orIdx, interrupted, interruptedAt>>
  /\ FileFrame
  /\ OrFrame
process_record == ProcessRecord(Ratings, FailCols, SaveOutcomes, BOOLEAN)

\* after the loop: excel_generator.finalize_excel(), then the run returns
run_finalize ==
  /\ orPc = "finalize"
  /\ \E outcome \in SaveOutcomes : Finalize(outcome)
  /\ orPc' = "done"
  /\ UNCHANGED <<orMode, backend, orTotal, orIdx, interrupted, interruptedAt, analyzed, orLog>>
  /\ FileFrame
  /\ OrFrame

\* _signal_handler: SIGINT sets the flag, at any point of a CLI run
_signal_handler ==
  /\ orMode = "cli"
  /\ orPc \notin {"done", "exit"}
  /\ ~interrupted
  /\ interrupted' = TRUE
  /\ interruptedAt' = orIdx
  /\ UNCHANGED <<orMode, orPc, backend, orTotal, orIdx, analyzed, orLog>>
  /\ UNCHANGED xlVars
  /\ FileFrame
  /\ OrFrame

\* Number of files analyze_all_files finds in the input folder
MaxFiles == 2

\* analyze_all_files: 'for file_path in input_files', the next file after
\* analyze_file has returned; the interrupted flag is never cleared
next_file ==
  /\ orMode = "cli"
  /\ orPc = "done"
  /\ fileNo < MaxFiles
  /\ fileNo' = fileNo + 1
  /\ orPc' = "parse"
  /\ orTotal' \in 0..MaxAppends
  /\ orIdx' = 0
  /\ analyzed' = <<>>
  /\ orLog' = <<>>
  /\ UNCHANGED <<orMode, backend, interrupted, interruptedAt, producing>>
  /\ UNCHANGED xlVars
  /\ OrFrame

\* the body of the loop in a run over several files: one rating, no cell
\* that raises, no exception of the progress tracker
process_record_of_file == ProcessRecord({9}, {0}, SaveOutcomes, {FALSE})

OrInit ==
  /\ orMode \in {"cli", "web"}
  /\ orPc = "start"
  /\ backend = "unknown"
  /\ orTotal \in 0..MaxAppends
  /\ orIdx = 0
  /\ interrupted = FALSE
  /\ interruptedAt = -1
  /\ analyzed = <<>>
  /\ orLog = <<>>
  /\ fileNo = 1
  /\ producing = 0

(***************************************************************************)
(* The web front end: start_analysis, the registry analysis_sessions and   *)
(* the background thread of each session                                   *)
(***************************************************************************)
SsFrame == UNCHANGED <<xlVars, azVars, psVars, orVars>>

\* Values of str(uuid.uuid4())[:8]: eight hexadecimal digits of a random UUID
SessionIds == {"1a2b3c4d", "5e6f7a8b"}
\* Number of records the submitted text parses into
SessionRecords == {0, 1, 2}

NoPath == <<>>
\* get_excel_path() of the session's generator:
\* os.path.join('output', f"analysis_{session_id}.xlsx")
ExcelPath(session_id) == <<"output", "/", "analysis_", session_id, ".xlsx">>

\* WebAnalysisSession.__init__; records: what the submitted text holds
WebAnalysisSession(session_id, records) ==
  [session_id |-> session_id, status |-> "initializing", current_question |-> 0,
   total_questions |-> 0, excel_path |-> NoPath, completed |-> FALSE,
   error |-> FALSE, records |-> records]

\* POST /analyze: validation, then a new session under a new identifier, put
\* in the registry, and its thread started
start_analysis ==
  /\ Len(sessions) < MaxSessions
  /\ \E fields_ok \in BOOLEAN, session_id \in SessionIds, records \in SessionRecords :
       IF ~fields_ok
       THEN UNCHANGED <<analysis_sessions, sessions>>
       ELSE /\ sessions' = Append(sessions, WebAnalysisSession(session_id, records))
            /\ analysis_sessions' =
                 [id \in DOMAIN analysis_sessions \cup {session_id} |->
                    IF id = session_id THEN Len(sessions) + 1 ELSE analysis_sessions[id]]
  /\ UNCHANGED poll
  /\ SsFrame

\* The thread of session t runs analyze_questions.  Each action below is
\* the code up to the next assignment of a field that GET /progress reads
\* together with others: the thread and the request threads share the
\* session object without a lock.
\* -- up to the end of parsing: status "parsing", then either the error of
\* an empty parse or total_questions and status "initializing_ai"
session_parse(t) ==
  /\ sessions[t].status \in {"initializing", "parsing"}
  /\ ~sessions[t].error
  /\ LET ses == sessions[t] IN
     sessions' = [sessions EXCEPT ![t] =
       IF ses.status = "initializing" THEN [ses EXCEPT !.status = "parsing"]
       ELSE IF ses.records = 0 THEN [ses EXCEPT !.error = TRUE]
       ELSE [ses EXCEPT !.status = "initializing_ai", !.total_questions = ses.records]]
  /\ UNCHANGED <<analysis_sessions, poll>>
  /\ SsFrame

\* -- self.status = "error", the statement after each self.error = ...
session_fail(t) ==
  /\ sessions[t].error
  /\ sessions[t].status # "error"
  /\ sessions' = [sessions EXCEPT ![t].status = "error"]
  /\ UNCHANGED <<analysis_sessions, poll>>
  /\ SsFrame

\* -- the probe, then the session's ExcelGenerator, which creates the
\* artifact; raised: the constructor raises (os.makedirs), which the outer
\* except clause turns into an error
session_setup(t) ==
  /\ sessions[t].status = "initializing_ai"
  /\ ~sessions[t].error
  /\ \E state \in BackendStates, raised \in BOOLEAN :
       LET ses == sessions[t] IN
       sessions' = [sessions EXCEPT ![t] =
         IF ~test_connection(state) \/ raised THEN [ses EXCEPT !.error = TRUE]
         ELSE [ses EXCEPT !.status = "analyzing", !.excel_path = ExcelPath(ses.session_id)]]
  /\ UNCHANGED <<analysis_sessions, poll>>
  /\ SsFrame

\* AfterFinalize raising the flag before the status
AfterFinalize_FlagFirst(ses) == [ses EXCEPT !.completed = TRUE]

\* the first assignment after finalize_excel(): self.status = "completed"
AfterFinalize(ses) == [ses EXCEPT !.status = "completed"]

\* -- one iteration of the loop (a row may be written to the artifact), or
\* finalize_excel after the last one and the assignment after it
session_analyze(t) ==
  /\ sessions[t].status = "analyzing"
  /\ ~sessions[t].error
  /\ LET ses == sessions[t] IN
     sessions' = [sessions EXCEPT ![t] =
       IF ses.current_question < ses.total_questions
       THEN [ses EXCEPT !.current_question = ses.current_question + 1]
       ELSE AfterFinalize(ses)]
  /\ UNCHANGED <<analysis_sessions, poll>>
  /\ SsFrame

\* -- self.completed = True
session_complete(t) ==
  /\ sessions[t].status = "completed"
  /\ ~sessions[t].completed
  /\ sessions' = [sessions EXCEPT ![t].completed = TRUE]
  /\ UNCHANGED <<analysis_sessions, poll>>
  /\ SsFrame

\* GET /progress/<session_id>: the lookup in the registry.  Without an entry
\* the answer is 404 and nothing is read.
get_progress ==
  /\ poll.pc \in {"idle", "done"}
  /\ \E session_id \in SessionIds :
       IF session_id \notin DOMAIN analysis_sessions
       THEN poll' = [NoResponse EXCEPT !.seen = poll.seen]
       ELSE poll' = [NoResponse EXCEPT !.pc = "status", !.t = analysis_sessions[session_id],
                                       !.seen = IF poll.pc = "done" THEN poll.status ELSE poll.seen]
  /\ UNCHANGED <<analysis_sessions, sessions>>
  /\ SsFrame

\* the response is built field by field, in the order of the dict display:
\* status, current_question, total_questions, completed, error
get_progress_read ==
  /\ poll.pc \in {"status", "current_question", "total_questions", "completed", "error"}
  /\ LET session_data == sessions[poll.t] IN
     poll' =
       IF poll.pc = "status"
       THEN [poll EXCEPT !.status = session_data.status, !.pc = "current_question"]
       ELSE IF poll.pc = "current_question"
       THEN [poll EXCEPT !.current_question = session_data.current_question,
                         !.pc = "total_questions"]
       ELSE IF poll.pc = "total_questions"
       THEN [poll EXCEPT !.total_questions = session_data.total_questions, !.pc = "completed"]
       ELSE IF poll.pc = "completed"
       THEN [poll EXCEPT !.completed = session_data.completed, !.pc = "error"]
       ELSE [poll EXCEPT !.error = session_data.error, !.pc = "done"]
  /\ UNCHANGED <<analysis_sessions, sessions>>
  /\ SsFrame

(***************************************************************************)
(* Specifications                                                          *)
(***************************************************************************)
\* the report accumulator on its own
InitExcel == XlInit /\ AzIdle /\ PsIdle /\ OrIdle /\ SsIdle
NextExcel ==
  \/ ExcelGenerator_init
  \/ add_analysis_result
  \/ finalize_excel
SpecExcel == InitExcel /\ [][NextExcel]_vars

\* one call of analyze_question
InitAnalyze == AzInit /\ XlInit /\ PsIdle /\ OrIdle /\ SsIdle
NextAnalyze ==
  \/ analyze_attempt
  \/ analyze_exhausted
SpecAnalyze == InitAnalyze /\ [][NextAnalyze]_vars

\* one call of parse_content
InitParse == PsInit /\ XlInit /\ AzIdle /\ OrIdle /\ SsIdle
NextParse == parse_content
SpecParse == InitParse /\ [][NextParse]_vars

\* parse_content on a file or on the text of a web session
InitHeaders == PsInitHeaders /\ XlInit /\ AzIdle /\ OrIdle /\ SsIdle
NextHeaders ==
  \/ web_format
  \/ parse_content
SpecHeaders == InitHeaders /\ [][NextHeaders]_vars

InitParseNumbered == PsInitNumbered /\ XlInit /\ AzIdle /\ OrIdle /\ SsIdle
SpecParseNumbered == InitParseNumbered /\ [][NextParse]_vars

InitRun == OrInit /\ XlInit /\ AzIdle /\ PsIdle /\ SsIdle
NextRun ==
  \/ cli_check_prerequisites
  \/ cli_analyze_file_begin
  \/ web_parse
  \/ web_probe_and_construct
  \/ loop_head
  \/ process_record
  \/ run_finalize
  \/ _signal_handler
SpecRun == InitRun /\ [][NextRun]_vars

\* main with no file named: analyze_all_files over the files of the folder
InitFiles == InitRun /\ orMode = "cli"
NextFiles ==
  \/ cli_check_prerequisites
  \/ cli_analyze_file_begin
  \/ loop_head
  \/ process_record_of_file
  \/ run_finalize
  \/ next_file
  \/ _signal_handler
SpecFiles == InitFiles /\ [][NextFiles]_vars

InitSessions == SsIdle /\ XlInit /\ AzIdle /\ PsIdle /\ OrIdle
NextSessions ==
  \/ start_analysis
  \/ \E t \in 1..Len(sessions) : session_parse(t)
  \/ \E t \in 1..Len(sessions) : session_fail(t)
  \/ \E t \in 1..Len(sessions) : session_setup(t)
  \/ \E t \in 1..Len(sessions) : session_analyze(t)
  \/ \E t \in 1..Len(sessions) : session_complete(t)
SpecSessions == InitSessions /\ [][NextSessions]_vars

\* one web session and the progress requests for it
NextPoll ==
  \/ sessions = <<>> /\ start_analysis
  \/ \E t \in 1..Len(sessions) : session_parse(t)
  \/ \E t \in 1..Len(sessions) : session_fail(t)
  \/ \E t \in 1..Len(sessions) : session_setup(t)
  \/ \E t \in 1..Len(sessions) : session_analyze(t)
  \/ \E t \in 1..Len(sessions) : session_complete(t)
  \/ get_progress
  \/ get_progress_read
SpecPoll == InitSessions /\ [][NextPoll]_vars

(***************************************************************************)
(* Claims about the report accumulator                                     *)
(***************************************************************************)
\* The row of the artifact on disk that holds result id, if any
DiskHasRow(id) ==
  /\ disk.st = "good"
  /\ \E r \in Rows : \A c \in Cols \ {RatingCol} :
       disk.ws[r][c] = [k |-> "str", id |-> id, col |-> c]

\* C1: add_analysis_result returns False whenever the row write or the save
\* of the workbook fails; a failed save never yields True.
C1_AppendFalseWhenSaveFails ==
  (xlOp = "append" /\ ~xlSaved) => xlRet = FALSE

\* C2: whenever an append returns True, the artifact on disk holds a row for
\* every result whose append has returned True so far.
C2_DiskHoldsAccepted ==
  (xlOp = "append" /\ xlRet = TRUE) =>
     \A i \in 1..Len(accepted) : DiskHasRow(accepted[i])

(***************************************************************************)
(* Claims about analyze_question                                           *)
(***************************************************************************)
AzDone == azPc = "done"
AzReturned == AzDone /\ azResult # Null
AzText == azResponse.kind = "text"

Min2(a, b) == IF a <= b THEN a ELSE b
Max2(a, b) == IF a >= b THEN a ELSE b

\* C3: every AnalysisResult returned by analyze_question has a rating that is
\* an integer in 0..10, whatever the backend response text.
C3_RatingInRange ==
  AzReturned => azResult.rating \in 0..10

\* C4 as stated: at most max_retries backend calls, the first attempt that
\* yields a result ends the call, None after max_retries failed attempts, and
\* a fully failed call takes exactly max_retries - 1 delays.
C4_RetryPolicy_Stated ==
  /\ calls <= max_retries
  /\ (AzDone /\ azResult = Null) => (calls = max_retries /\ delays = max_retries - 1)

\* C4 (amended): at most max_retries backend calls; while the loop runs every
\* attempt made so far has failed; the attempt that yields a result ends the
\* call and its result is returned with one delay per failed attempt before
\* it; None is returned after max_retries failed attempts, with
\* max_retries - 1 delays when max_retries >= 1 and none when it is 0.
C4_RetryPolicy ==
  /\ calls <= max_retries
  /\ azPc = "loop" =>
       /\ azResult = Null
       /\ calls = attempt
       /\ delays = Min2(attempt, Max2(max_retries - 1, 0))
  /\ AzReturned =>
       /\ calls = attempt + 1
       /\ delays = calls - 1
       /\ azResult = _parse_analysis_response(azResponse, format_question_for_analysis(azQuestion))
  /\ (AzDone /\ azResult = Null) =>
       /\ calls = max_retries
       /\ delays = Max2(max_retries - 1, 0)
C4_Witness ==
  AzDone /\ azResult = Null /\ max_retries = 3 /\ calls = 3 /\ delays = 2

\* C5: no exception leaves analyze_question; a backend call that raises or a
\* response that cannot be parsed on every attempt ends in the return of None.
C5_NeverRaises ==
  /\ ~azRaised
  /\ AzDone => (azResult = Null \/ azResult.kind = "result")
  /\ (AzDone /\ azResponse.kind \in {"raise", "nontext"}) => azResult = Null
C5_Witness ==
  AzDone /\ azResponse.kind = "raise" /\ azResult = Null /\ calls >= 2

\* a value the table format carries unchanged
CleanValue(v) ==
  /\ Len(v) <= SubjectLen
  /\ Strip(v) = v
  /\ ~Contains(v, PIPE)
  /\ ~Contains(v, <<NL>>)
IsEcho == AzText /\ \E pad \in Pads : azResponse.text = EchoRow(azQuestion, pad)
RecoversClassification ==
  /\ azResult.via = "table"
  /\ azResult.subject = azQuestion.subject
  /\ azResult.topic = azQuestion.topic
  /\ azResult.subtopic = azQuestion.subtopic

\* C8 as stated: when the response is a table row echoing the record, the
\* primary parser's result has the record's subject, topic and subtopic.
C8_RoundTrip_Stated ==
  (AzReturned /\ IsEcho) => RecoversClassification

\* C8 (amended): the same, provided each of the three values has at most 100
\* characters, no leading or trailing whitespace, no '|' and no newline, and
\* the row neither contains the word 'Subject' nor starts with '|---'.
C8_RoundTrip ==
  ( /\ AzReturned
    /\ IsEcho
    /\ CleanValue(azQuestion.subject)
    /\ CleanValue(azQuestion.topic)
    /\ CleanValue(azQuestion.subtopic)
    /\ ~Contains(azResponse.text, SubjectWord)
    /\ ~StartsWith(Strip(azResponse.text), SepRowStart) )
  => RecoversClassification
C8_Witness ==
  /\ AzReturned
  /\ azResponse.text = EchoRow(azQuestion, <<" ">>)
  /\ azQuestion.subject = <<"H","i","s","t">>
  /\ azResult.subject = <<"H","i","s","t">>
  /\ azResult.via = "table"

\* the value of the digits cell[lo..hi]
RECURSIVE DecimalValue(_, _, _)
DecimalValue(cell, lo, hi) ==
  IF hi < lo THEN 0 ELSE DecimalValue(cell, lo, hi - 1) * 10 + DigitVal(cell[hi])
\* the first integer embedded in a cell: lo..hi is the leftmost maximal run
\* of digits
IsFirstInteger(cell, n) ==
  \E lo \in 1..Len(cell) : \E hi \in lo..Len(cell) :
    /\ \A i \in 1..(lo - 1) : cell[i] \notin Digits
    /\ \A i \in lo..hi : cell[i] \in Digits
    /\ hi = Len(cell) \/ cell[hi + 1] \notin Digits
    /\ n = DecimalValue(cell, lo, hi)

PsParsed == psPc = "parsed"
NumBlocks == Len(docShape.blocks)

\* C6: for a well-formed document with k question blocks parse_content
\* returns exactly k records, each with exactly 4 options and non-empty
\* question text.
C6_WellFormedAllParsed ==
  (PsParsed /\ \A i \in 1..NumBlocks : docShape.blocks[i].wf) =>
     /\ Len(questions) = NumBlocks
     /\ \A j \in 1..Len(questions) :
          Len(questions[j].options) = NumOptions /\ questions[j].question_text # <<>>

IsDataCell(cell) == cell.k = "str" \/ (cell.k = "int" /\ "fill" \in DOMAIN cell)
DataRows(ws) == {r \in Rows : \E c \in Cols : IsDataCell(ws[r][c])}
\* row r holds the ten cells of the result with the given id
IsRowOf(ws, r, id) ==
  \A c \in Cols :
    IF c = RatingCol THEN ws[r][c].k = "int" /\ "fill" \in DOMAIN ws[r][c]
    ELSE ws[r][c] = [k |-> "str", id |-> id, col |-> c]
\* every add_analysis_result call made so far returned True
AllAppended == Len(accepted) = nextId - 1
FinalizedOnce == xlOp = "finalize" /\ finalized = 1
\* the tier a summary count row is about, by its label
TierOfLabel(label) ==
  CASE label = Label("High Quality (9-10):") -> "high"
    [] label = Label("Good Quality (7-8):") -> "good"
    [] label = Label("Average Quality (5-6):") -> "average"
    [] label = Label("Below Standard (<5):") -> "low"
    [] OTHER -> "none"
\* the value a COUNTIF(S) formula cell computes on the sheet
CountOf(ws, formula) ==
  Cardinality({r \in formula.lo..formula.hi :
                 ws[r][RatingCol].k = "int" /\ Criterion(formula.fn, ws[r][RatingCol].v)})
\* The report after N accepted results and one finalize_excel
SummaryOver(ws, N) ==
  LET summary_row == N + FirstDataRow + SummaryGap
      counts == (summary_row + 2)..(summary_row + 5)
  IN /\ DataRows(ws) = FirstDataRow..(N + 1)
     /\ \A i \in 1..N : IsRowOf(ws, i + 1, accepted[i])
     /\ ws[summary_row][1] = Label("ANALYSIS SUMMARY")
     /\ ws[summary_row + 6] [1] = Label("Total Questions:")
     /\ ws[summary_row + 6] [2] = [k |-> "int", v |-> N]
     /\ \A r \in (summary_row + 1)..(summary_row + 5) :
          /\ ws[r][2].k = "formula"
          /\ ws[r][2].lo = FirstDataRow
          /\ ws[r][2].hi = N + 1
     /\ ws[summary_row + 1][2].k = "formula" /\ ws[summary_row + 1][2].fn = "AVERAGE"
     /\ \A r \in counts : ws[r][2].k = "formula" /\ TierOfLabel(ws[r][1]) # "none"
     /\ (\A r \in counts : ws[r][2].k = "formula")
          => /\ CountOf(ws, ws[summary_row + 2][2]) + CountOf(ws, ws[summary_row + 3][2])
                  + CountOf(ws, ws[summary_row + 4][2]) + CountOf(ws, ws[summary_row + 5][2]) = N
             /\ \A d \in FirstDataRow..(N + 1), r \in counts :
                  ws[d][RatingCol].k = "int"
                    => (Criterion(ws[r][2].fn, ws[d][RatingCol].v)
                          <=> ws[d][RatingCol].fill = TierOfLabel(ws[r][1]))

\* C11 as stated: after N add_analysis_result calls, all returning True, and
\* one finalize_excel, the sheet has exactly the N data rows 2..N+1, the
\* total is N, the formulas range over those rows and the four tier counts
\* partition them in agreement with the cell colours -- for every N
C11_SummaryMatchesRows_Stated ==
  (FinalizedOnce /\ AllAppended) => SummaryOver(worksheet, Len(accepted))

\* C11 (amended): the same for N >= 1; with N = 0 finalize_excel writes the
\* title and the footer only, no total and no formula; and the file on disk
\* is that sheet when the final save succeeded
C11_SummaryMatchesRows ==
  (FinalizedOnce /\ AllAppended)
    => /\ Len(accepted) >= 1 => SummaryOver(worksheet, Len(accepted))
       /\ Len(accepted) = 0 =>
            \A r \in Rows \ {1} : \A c \in Cols :
              worksheet[r][c] \in {Empty, Label("ANALYSIS SUMMARY"), Label("Generated on:")}
       /\ xlSaved => disk.st = "good" /\ disk.ws = worksheet

C11_Witness ==
  /\ FinalizedOnce /\ AllAppended
  /\ Len(accepted) >= 2
  /\ worksheet[2][RatingCol].fill # worksheet[3][RatingCol].fill
  /\ xlSaved

TitleRows == {r \in Rows : worksheet[r][1] = Label("ANALYSIS SUMMARY")}
TotalRows == {r \in Rows : worksheet[r][1] = Label("Total Questions:")}
FooterRows == {r \in Rows : worksheet[r][1] = Label("Generated on:")}
\* the finalize_excel calls made so far all saw the same accepted results
\* and the last operation is one of them
FinalizedAgain ==
  /\ xlOp = "finalize"
  /\ finalized >= 2
  /\ \A i, j \in 1..finalized : finalizedAt[i] = finalizedAt[j]

\* C13 as stated: after the second finalize_excel the sheet has two summary
\* blocks (two title rows)
C13_FinalizeTwiceDuplicates_Stated ==
  (xlOp = "finalize" /\ finalized = 2) => Cardinality(TitleRows) = 2

\* C13 (amended): finalize_excel does not move the cursor, so a repeated call
\* with no result accepted in between rewrites the same cells: the sheet has
\* one title row, one footer row, at most one set of aggregate rows and one
\* merged range
C13_FinalizeTwiceRewrites ==
  FinalizedAgain
    => /\ TitleRows = {current_row + SummaryGap}
       /\ FooterRows = {current_row + SummaryGap + MetadataGap}
       /\ TotalRows = IF Len(accepted) > 0 THEN {current_row + SummaryGap + 6} ELSE {}
       /\ merged = {current_row + SummaryGap}

C13_Witness ==
  /\ FinalizedAgain
  /\ Len(accepted) >= 1
  /\ Cardinality(TotalRows) = 1

\* C19: construction of ExcelGenerator does not complete when the initial
\* save of the workbook fails
C19_InitFailsWhenSaveFails ==
  (xlOp = "init" /\ ~xlSaved) => xlPc = "failed"

(***************************************************************************)
(* Claims about the records parse_content emits                            *)
(***************************************************************************)
\* C14: every record emitted by parse_content has a non-empty explanation
C14_ExplanationNonEmpty ==
  PsParsed => \A i \in 1..Len(questions) : questions[i].explanation # <<>>

\* C15: within the result of one parse_content call every question_number
\* is at least 1 and no two records share a question_number
C15_NumbersPositiveUnique ==
  PsParsed =>
    /\ \A i \in 1..Len(questions) : questions[i].question_number >= 1
    /\ \A i, j \in 1..Len(questions) :
         i # j => questions[i].question_number # questions[j].question_number

\* the label of an option string "X. text"
OptionLabel(option) == option[1]

\* C16: in every emitted record the four options carry labels from A-D and
\* the label of correct_answer is the label of one of them
C16_AnswerAmongOptions ==
  PsParsed =>
    \A i \in 1..Len(questions) :
      LET q == questions[i] IN
      /\ Len(q.options) = NumOptions
      /\ \A k \in 1..Len(q.options) : OptionLabel(q.options[k]) \in OptionLetters
      /\ \E k \in 1..Len(q.options) : OptionLabel(q.correct_answer) = OptionLabel(q.options[k])

(***************************************************************************)
(* Claims about the orchestrators                                          *)
(***************************************************************************)
\* the run went through its loop and returned
RunOver == orPc = "done" /\ xlPc = "ready"
\* the records whose analysis gave a result and whose append returned True
Succeeded ==
  SelectSeq([k \in 1..Len(orLog) |-> k], LAMBDA k : orLog[k] \in {"success", "exception"})
\* the sheet holds one complete row per accepted result, in order, and no
\* other cell of a result
OneRowPerAccepted ==
  /\ DataRows(worksheet) = FirstDataRow..(Len(accepted) + 1)
  /\ \A i \in 1..Len(accepted) : IsRowOf(worksheet, i + 1, accepted[i])
\* every record was analysed once, in document order, whatever happened to
\* the records before it, and finalize_excel was called once
RunProcessesEveryRecord ==
  /\ analyzed = [k \in 1..orTotal |-> k]
  /\ Len(orLog) = orTotal
  /\ finalized = 1
  /\ accepted = Succeeded

\* C12: when the connectivity probe fails, analyze_question is never called
\* in that run and no ExcelGenerator is constructed (no artifact is written)
C12_NoAnalysisAfterFailedProbe ==
  backend = "unreachable" =>
    /\ analyzed = <<>>
    /\ orIdx = 0
    /\ xlPc = "new"
    /\ disk.st = "absent"
    /\ finalized = 0
    /\ orPc = "exit"

C12_Witness ==
  /\ backend = "unreachable"
  /\ orMode = "web"
  /\ orTotal >= 1
  /\ orPc = "exit"

\* C17: a run that is not interrupted analyses every record once, in
\* document order, whatever the outcome of the records before it, calls
\* finalize_excel once, and its report holds exactly one row per record
\* whose analysis and append both succeeded
C17_EveryRecordOneRowPerSuccess ==
  (RunOver /\ ~interrupted) => (RunProcessesEveryRecord /\ OneRowPerAccepted)

\* C18: once the interrupt flag is set no further record is started; the
\* record in flight is completed and, when accepted, is in the report; and
\* finalize_excel is still called once before the run returns
C18_CooperativeCancel ==
  /\ interrupted =>
       /\ orIdx = interruptedAt
       /\ Len(analyzed) <= interruptedAt
  /\ accepted = Succeeded
  /\ (interrupted /\ RunOver) =>
       /\ Len(orLog) = orIdx
       /\ analyzed = [k \in 1..orIdx |-> k]
       /\ finalized = 1

C18_Witness ==
  /\ interrupted /\ RunOver
  /\ interruptedAt >= 1
  /\ interruptedAt < orTotal
  /\ orLog[interruptedAt] = "success"
  /\ accepted[Len(accepted)] = interruptedAt
  /\ finalized = 1

(***************************************************************************)
(* Claims about concurrent web sessions                                    *)
(***************************************************************************)
\* the thread of session t is still running
ActiveSession(t) == sessions[t].status \notin {"completed", "error"}
\* session t has constructed its generator and writes to its artifact
Writing(t) == sessions[t].status = "analyzing"

\* C20: two active sessions never share a session identifier (a registry
\* entry), and no two sessions write to the same artifact path at one time
C20_SessionsIsolated ==
  \A t, u \in 1..Len(sessions) :
    (t # u /\ ActiveSession(t) /\ ActiveSession(u)) =>
      /\ sessions[t].session_id # sessions[u].session_id
      /\ analysis_sessions[sessions[t].session_id] = t
      /\ (Writing(t) /\ Writing(u)) => sessions[t].excel_path # sessions[u].excel_path

(***************************************************************************)
(* Claims about the row cursor and about finalize_excel without rows       *)
(***************************************************************************)
\* C26: the row cursor is 2 plus the number of add_analysis_result calls that
\* returned True (a call returning False and finalize_excel leave it alone),
\* and the i-th accepted result is in row i+1, whatever was appended or
\* finalized after it
C26_CursorCountsAccepted ==
  /\ current_row = FirstDataRow + Len(accepted)
  /\ (xlOp = "append" /\ ~xlRet) => nextId - 1 > Len(accepted)
  /\ \A i \in 1..Len(accepted) : IsRowOf(worksheet, i + 1, accepted[i])

C26_Witness ==
  /\ xlOp = "append" /\ xlRet
  /\ Len(accepted) >= 1
  /\ nextId - 1 > Len(accepted)
  /\ finalized >= 1
  /\ current_row = FirstDataRow + Len(accepted)

FormulaCells == {<<r, c>> \in Rows \X Cols : worksheet[r][c].k = "formula"}
AggregateLabels ==
  {Label("Average Rating:"), Label("High Quality (9-10):"), Label("Good Quality (7-8):"),
   Label("Average Quality (5-6):"), Label("Below Standard (<5):"), Label("Total Questions:")}

\* C27: finalize_excel called with the cursor still at 2 writes the title and
\* the footer only: no average, tier-count or total row and no formula is in
\* the sheet, nor in the file when the save succeeded
C27_EmptyFinalizeWritesNoFormula ==
  (xlOp = "finalize" /\ current_row = FirstDataRow) =>
    /\ FormulaCells = {}
    /\ \A r \in Rows, c \in Cols : worksheet[r][c] \notin AggregateLabels
    /\ TitleRows = {FirstDataRow + SummaryGap}
    /\ FooterRows = {FirstDataRow + SummaryGap + MetadataGap}
    /\ \A r \in Rows, c \in Cols :
         worksheet[r][c].k = "int" => "fill" \in DOMAIN worksheet[r][c]
    /\ xlSaved => disk.ws = worksheet

C27_Witness ==
  /\ xlOp = "finalize"
  /\ current_row = FirstDataRow
  /\ accepted = <<>>
  /\ xlSaved
  /\ worksheet[FirstDataRow + SummaryGap][1] = Label("ANALYSIS SUMMARY")

(***************************************************************************)
(* Claims about the two parsers of a backend response                      *)
(***************************************************************************)
\* the separator row of a table
IsSeparatorRow(line) == StartsWith(Strip(line), SepRowStart)
\* the header row of a table: its first cell is the column title
IsHeaderRow(line) == Cells(line) # <<>> /\ Cells(line)[1] = SubjectWord
\* the lines of a text that hold '|', are neither separator nor header row
\* and have at least nine cells
QualifyingLines(text) ==
  LET lines == Split(text, <<NL>>)
  IN {i \in 1..Len(lines) :
        /\ Contains(lines[i], PIPE)
        /\ ~IsSeparatorRow(lines[i])
        /\ ~IsHeaderRow(lines[i])
        /\ Len(Cells(lines[i])) >= MinCells}
\* the lines of a text that pass the test of the primary parser
DataLines(text) ==
  LET lines == Split(text, <<NL>>)
  IN {i \in 1..Len(lines) : IsDataRow(lines[i])}
\* the result holds the cells of row, field by field
MappedFrom(result, row) ==
  /\ result.kind = "result"
  /\ result.via = "table"
  /\ result.subject = Truncate(row[1], SubjectLen)
  /\ result.topic = Truncate(row[2], SubjectLen)
  /\ result.subtopic = Truncate(row[3], SubjectLen)
  /\ result.question_complete = Truncate(row[4], LongLen)
  /\ result.answer_explanation = Truncate(row[5], LongLen)
  /\ result.rating = ExtractRating(row[6])
  /\ result.conceptual_depth = Truncate(row[7], CommentLen)
  /\ result.answer_accuracy = Truncate(row[8], CommentLen)
  /\ result.topic_relevance = Truncate(row[9], CommentLen)
  /\ result.improved_version = IF Len(row) = MinCells THEN NA ELSE Truncate(row[10], LongLen)

\* C22: the primary parser takes the first response line, in order, that
\* contains '|', is not a separator or header row and has at least 9 cells;
\* its cells are mapped by position onto the ten result fields, and with
\* only 9 cells improved_version is "N/A".
C22_FirstQualifyingRow ==
  (AzDone /\ AzText /\ QualifyingLines(azResponse.text) # {}) =>
     MappedFrom(azResult,
                Cells(Split(azResponse.text, <<NL>>)[MinOf(QualifyingLines(azResponse.text))]))

C24_LengthBounds ==
  AzReturned =>
     /\ Len(azResult.subject) <= SubjectLen
     /\ Len(azResult.topic) <= SubjectLen
     /\ Len(azResult.subtopic) <= SubjectLen
     /\ Len(azResult.question_complete) <= LongLen
     /\ Len(azResult.answer_explanation) <= LongLen
     /\ Len(azResult.conceptual_depth) <= CommentLen
     /\ Len(azResult.answer_accuracy) <= CommentLen
     /\ Len(azResult.topic_relevance) <= CommentLen
     /\ Len(azResult.improved_version) <= LongLen
C24_Witness ==
  /\ AzReturned
  /\ azResponse = TextResponse(LongRow(MinCells + 1))
  /\ azResult.via = "table"
  /\ Len(azResult.subject) = SubjectLen
  /\ Len(azResult.answer_explanation) = LongLen
  /\ Len(azResult.topic_relevance) = CommentLen
  /\ Len(azResult.improved_version) = LongLen

WindowOf(text) ==
  LET lines == Split(text, <<NL>>)
  IN [i \in 1..Min2(Len(lines), HeaderWindow) |-> Strip(lines[i])]
\* the value a header line carries after its prefix
HeaderValue(line, prefix) == Strip(Remove(line, prefix))
\* the lines of the window with the prefix
LinesWith(window, prefix) == {i \in 1..Len(window) : StartsWith(window[i], prefix)}
HeaderParsed == psPc = "parsed" /\ "origin" \in DOMAIN docShape /\ questions # <<>>
\* a field is the value of some line of the window with its prefix, and
\* empty when the window has no such line
FoundInWindow(window, prefix, value) ==
  LET with == LinesWith(window, prefix)
  IN IF with = {} THEN value = <<>>
     ELSE \E i \in with : value = HeaderValue(window[i], prefix)

\* C21: each of subject, topic and subtopic is found whenever a line with
\* its prefix is among the first 10 lines, in whatever order the lines come,
\* and is the empty string when there is no such line.
C21_HeaderAnyOrder ==
  HeaderParsed =>
    LET window == WindowOf(content) IN
    \A k \in 1..Len(questions) :
      /\ FoundInWindow(window, SubjectPrefix, questions[k].subject)
      /\ FoundInWindow(window, TopicPrefix, questions[k].topic)
      /\ FoundInWindow(window, SubtopicPrefix, questions[k].subtopic)

\* the number of lines the scan reads: up to the first Subtopic: line of
\* the window
ScannedLines(window) ==
  LET with == LinesWith(window, SubtopicPrefix)
  IN IF with = {} THEN Len(window) ELSE MinOf(with)
\* the value of the last scanned line with the prefix, empty without one
LastScanned(window, prefix) ==
  LET with == {i \in LinesWith(window, prefix) : i <= ScannedLines(window)}
  IN IF with = {} THEN <<>> ELSE HeaderValue(window[MaxOf(with)], prefix)
WebParsed == HeaderParsed /\ docShape.origin = "web"

\* C29 as stated: in a web session every record's subject is the whole rest
\* of the header line after 'Subject:', and topic and subtopic are empty
\* unless a later line among the first 10 starts with 'Topic:' or
\* 'Subtopic:'.
C29_WebHeaderLine_Stated ==
  WebParsed =>
    LET window == WindowOf(content) IN
    \A k \in 1..Len(questions) :
      /\ questions[k].subject =
           Strip(SubSeq(window[1], Len(SubjectPrefix) + 1, Len(window[1])))
      /\ LinesWith(window, TopicPrefix) = {} => questions[k].topic = <<>>
      /\ LinesWith(window, SubtopicPrefix) = {} => questions[k].subtopic = <<>>

\* C29 (amended): in a web session the first line of the parsed text is
\* 'Subject:<subject>. Topic:<topic>   Subtopic:<subtopic>'; the scan reads
\* the first 10 lines up to the first one starting with 'Subtopic:'; every
\* record's subject is the value of the last scanned line starting with
\* 'Subject:' (the header line unless the submitted text has such a line),
\* a value being the line without any 'Subject:' in it; topic is the value
\* of the last scanned 'Topic:' line and subtopic that of the 'Subtopic:'
\* line, each empty without such a line.
C29_WebHeaderLine ==
  WebParsed =>
    LET window == WindowOf(content)
        subject == LastScanned(window, SubjectPrefix)
        topic == LastScanned(window, TopicPrefix)
        subtopic == LastScanned(window, SubtopicPrefix)
    IN /\ window[1] = SubjectPrefix \o docShape.form.subject \o <<".", " ">>
                         \o TopicPrefix \o docShape.form.topic \o <<" ", " ", " ">>
                         \o SubtopicPrefix \o docShape.form.subtopic
       /\ \A k \in 1..Len(questions) :
            /\ questions[k].subject = subject
            /\ questions[k].topic = topic
            /\ questions[k].subtopic = subtopic
C29_Witness ==
  /\ WebParsed
  /\ Len(questions) = 2
  /\ docShape.header = <<>>
  /\ questions[2].subject = <<"H","i","s","t",".", " ","T","o","p","i","c",":","A","n","c",
                               " "," "," ","S","u","b","t","o","p","i","c",":","R","o","m","e">>
  /\ questions[2].topic = <<>>
  /\ questions[2].subtopic = <<>>

(***************************************************************************)
(* Claims about the progress of a web session                              *)
(***************************************************************************)
\* the order of the statuses of a run that goes well
StatusRank(status) ==
  CASE status = "none" -> 0
    [] status = "initializing" -> 1
    [] status = "parsing" -> 2
    [] status = "initializing_ai" -> 3
    [] status = "analyzing" -> 4
    [] OTHER -> 5
\* a status follows another in a session: the same, or a later one of the
\* order, or "error" from a status that is not final
StatusFollows(before, after) ==
  \/ after = before
  \/ before \notin {"completed", "error"} /\ after = "error"
  \/ before \notin {"completed", "error"} /\ StatusRank(after) > StatusRank(before)
\* what the claim says of the fields of one observation
Consistent(obs) ==
  /\ obs.completed => obs.status = "completed"
  /\ obs.status = "error" => obs.error
  /\ obs.current_question <= obs.total_questions
\* every state of every session object is consistent
SessionsConsistent == \A t \in 1..Len(sessions) : Consistent(sessions[t])
\* no step of a session moves its status back or out of a final status
SessionsForward ==
  \A t \in 1..Len(sessions) : StatusFollows(sessions[t].status, sessions'[t].status)
Responded == poll.pc = "done"
\* the statuses of two successive responses
ResponsesForward == (Responded /\ poll.seen # "none") => StatusFollows(poll.seen, poll.status)

\* C30 as stated, for what a progress request observes, i.e. its response:
\* completed only with status 'completed', status 'error' only with error
\* set, current_question at most total_questions, the status moving forward
\* only and staying once it is 'completed' or 'error'.
C30_PollObservations_Stated ==
  /\ [](Responded => Consistent(poll))
  /\ [](ResponsesForward)
  /\ [][SessionsForward]_vars

\* C30 (amended): every state of the session object has completed only with
\* status 'completed', status 'error' only with error set and
\* current_question at most total_questions, and its status only moves
\* forward through initializing, parsing, initializing_ai, analyzing and
\* stays once it is 'completed' or 'error'.  A response, whose fields are
\* read one after the other while the session runs, keeps all of this but
\* the first: completed true means the session has status 'completed' by
\* then, while the status of the same response may be an earlier one.
C30_PollObservations ==
  /\ [](SessionsConsistent)
  /\ [][SessionsForward]_vars
  /\ [](ResponsesForward)
  /\ [](Responded =>
          /\ poll.status = "error" => poll.error
          /\ poll.current_question <= poll.total_questions
          /\ poll.completed => /\ sessions[poll.t].status = "completed"
                                /\ poll.status # "error"
                                /\ ~poll.error)
C30_Witness ==
  /\ Responded
  /\ poll.status = "analyzing"
  /\ poll.completed
  /\ poll.current_question = 1
  /\ poll.total_questions = 2
  /\ sessions[poll.t].status = "completed"
  /\ sessions[poll.t].completed

(***************************************************************************)
(* Claims about a run over several files                                   *)
(***************************************************************************)
\* analyze_all_files has gone through every file
AllFilesDone == orMode = "cli" /\ orPc = "done" /\ fileNo = MaxFiles
\* the files whose results a sheet holds cells of
FilesIn(ws) ==
  {FileOfId(ws[r][c].id) : r \in {x \in Rows : ws[x][1].k = "str"}, c \in {1}}

====
